---- MODULE Spec2Model ----
(***************************************************************************)
(* The x86 instruction decoder of InstructionSets/x86/Decoder.cpp, as a    *)
(* state machine: one long-lived decoder, driven by decode(buffer) calls   *)
(* whose buffers split a byte stream into arbitrary chunks.                *)
(***************************************************************************)
EXTENDS Integers, Sequences, FiniteSets, TLC

\* ------------------------------------------------------------------------
\* Bounds of the model.

\* Longest buffer handed to one decode call.
MaxChunk == 3
\* Most prefix bytes the caller leaves pending in front of an opcode.
MaxPrefix == 2

\* ------------------------------------------------------------------------
\* The processor generations, in the order of the Model enumeration that
\* the `model < Model::...` comparisons rely on.

i8086 == 0
i80186 == 1
i80286 == 2
i80386 == 3
Models == {i8086, i80186, i80286, i80386}

\* ------------------------------------------------------------------------
\* Byte alphabets. Each behaviour draws all its stream bytes from one of
\* them; every byte plays each role (opcode, ModRegRM, data) it can.

\* REP, STOS, PUSHA (80186 onwards), NOP.
AlphabetRepeat == {243, 170, 96, 144}
\* LOCK, ES:, NOP, and the unassigned 0x8c.
AlphabetPrefix == {240, 38, 144, 140}
\* REP, MOV AX,imm16, JO rel8 and the group 0xff; each is also a data byte
\* and a ModRegRM byte (mod 3, 2, 1 and 3).
AlphabetOperand == {243, 184, 112, 255}
\* ADD r/m16,r16 and LES; each is also a ModRegRM byte (mod 0 and 3), as
\* is 0xb8 (mod 2), and a data byte.
AlphabetModRegRM == {1, 196, 184}

\* LOCK, the escape 0x0f, and ADD AX,imm16, which after 0x0f is LOADALL.
AlphabetEscape == {240, 15, 5}
\* The escape 0x0f, ADD r/m16,r16 and PUSH ES; after 0x0f the first is no
\* entry, the second a group and the third CLTS; each is also a ModRegRM
\* byte (mod 0; reg 1, 0 and 0).
AlphabetPageF == {15, 1, 6}

\* The group 0x83, CALL rel16 and the group 0xff; each is also a ModRegRM
\* byte (mod 2, 3 and 3; reg 0, 5 and 7) and a data byte with bit 7 set.
AlphabetImmediate == {131, 232, 255}
\* IN AX,port, the group 0x83 and ADD AX,imm16; each is also a data byte,
\* the last with bit 7 clear, and a ModRegRM byte (mod 3, 2 and 0; reg 4,
\* 0 and 0).
AlphabetPort == {229, 131, 5}

\* REP and MOV AX,imm16, each also a data byte.
AlphabetPair == {243, 184}

\* Every value of a byte.
AlphabetDispatch == 0..255

\* ES:, BOUND and ENTER; each is also a ModRegRM byte (mod 0, 1 and 3) and
\* a data byte.
AlphabetEnter == {38, 98, 200}
\* POPA, ARPL (80286 onwards), LEAVE and INSB; each is also a ModRegRM byte
\* (mod 1, 1, 3 and 1).
AlphabetArpl == {97, 99, 201, 108}
\* PUSHA, INSW, OUTSB and OUTSW.
AlphabetPusha == {96, 109, 110, 111}

\* The group 0x83, INC SI and PUSH ES; each is also a ModRegRM byte with
\* reg 0 (mod 2 and rm 3, mod 1 and rm 6, mod 0 and rm 6) and a data byte.
AlphabetAbsolute == {131, 70, 6}
\* LES, LDS and ES:; each is also a ModRegRM byte (mod 3, 3 and 0).
AlphabetFarLoad == {196, 197, 38}
\* The group 0xf7, IRET and LOCK; each is also a ModRegRM byte of mod 3
\* (reg 6, 1 and 6).
AlphabetUnary == {247, 207, 240}
\* MOV to a segment register, LOOPNE and ES:; each is also a ModRegRM byte
\* (mod 2, 3 and 0; reg 1, 4 and 4).
AlphabetSegment == {142, 224, 38}
\* The escape 0x0f, ADD r/m8,r8 and CMP r/m8,r8; after 0x0f the second is
\* a group; each is also a ModRegRM byte of mod 0 (reg 1, 0 and 7).
AlphabetGroupF == {15, 0, 56}
\* MOV r/m16,r16, MOV r16,r/m16 and RETF; each is also a ModRegRM byte
\* (mod 2, 2 and 3; reg 1; rm 1, 3 and 3).
AlphabetRegisters == {137, 139, 203}
\* The shift group 0xd1 and INC SI; each is also a ModRegRM byte (mod 3
\* and reg 2, mod 1 and reg 0) and a data byte.
AlphabetShift == {209, 70}
\* The group 0xff and CBW; each is also a ModRegRM byte (mod 3 and reg 7,
\* mod 2 and reg 3) and a data byte.
AlphabetLongest == {255, 152}

\* IN AX,port, OUT port,AX and ADD AX,imm16, each also a data byte.
AlphabetPortWord == {229, 231, 5}
\* Far CALL and ES:, each also a data byte.
AlphabetFar == {154, 38}
\* JO, JMP short and ES:, each also a data byte.
AlphabetJump == {112, 235, 38}
\* The groups 0x81 and 0x83 and INC SI; each is also a ModRegRM byte with
\* reg 0 (mod 2, 2 and 1) and a data byte.
AlphabetTrailing == {129, 131, 70}

\* The decoders built and the streams they are given.
Configurations ==
    ({i8086, i80186, i80286, i80386} \X {AlphabetRepeat})
        \cup ({i8086, i80286} \X {AlphabetPrefix})
        \cup ({i8086} \X {AlphabetOperand, AlphabetModRegRM})

\* The decoders and streams of the behaviours about the escape 0x0f.
ConfigurationsEscape ==
    (Models \X {AlphabetEscape}) \cup ({i80286, i80386} \X {AlphabetPageF})

\* The decoders and streams of the behaviours about one-byte immediates.
ConfigurationsImmediate == {i8086} \X {AlphabetImmediate, AlphabetPort}

\* The models and streams of the behaviours of two decoders.
ConfigurationsPair == {i8086, i80386} \X {AlphabetPair}

\* The decoders of the behaviours about the opcode switch.
ConfigurationsDispatch == Models \X {AlphabetDispatch}

\* The decoders and streams of the behaviours about the opcodes of the
\* 80186 and the 80286.
ConfigurationsGated ==
    ({i8086, i80186, i80286} \X {AlphabetEnter, AlphabetArpl})
        \cup ({i8086, i80186} \X {AlphabetPusha})

\* The decoders and streams of the behaviours about ModRegRM bytes.
ConfigurationsAddress ==
    ({i8086} \X {AlphabetAbsolute, AlphabetFarLoad, AlphabetUnary, AlphabetSegment,
                  AlphabetRegisters, AlphabetShift, AlphabetLongest})
        \cup ({i80286} \X {AlphabetGroupF})

\* The decoders and streams of the behaviours about trailing bytes.
ConfigurationsTrailing ==
    {i8086} \X {AlphabetPortWord, AlphabetFar, AlphabetJump, AlphabetTrailing}

VARIABLES
    model,      \* the decoder's template parameter
    bytes,      \* the alphabet the stream is drawn from
    dec,        \* the decoder's member fields
    result,     \* what the last decode call returned, and what it was given
    fed,        \* the bytes consumed since the instruction before this one ended
    prev,       \* how the instruction before the one in progress ended
    start,      \* the decoder as it was when the first byte of fed arrived
    before,     \* the sign of the count the call before the last one returned
    pair        \* two more decoders of the same model, driven in any order

vars == <<model, bytes, dec, result, fed, prev, start, before, pair>>

\* ------------------------------------------------------------------------
\* Values.

\* ScaleIndexBase(scale, index, base)
ScaleIndexBase(scale, index, base) == [scale |-> scale, index |-> index, base |-> base]

\* A default-constructed ScaleIndexBase.
ScaleIndexBase_default == ScaleIndexBase(0, "None", "None")

\* The value-initialised Source of reg_table's empty row 0.
Source_zero == "Source(0)"

\* InstructionT(operation, source, destination, sib, lock, address_size,
\* segment_override, repetition, operation_size, displacement, operand)
InstructionT(operation, source, destination, sib, lock, address_size, segment_override, repetition, operation_size, displacement, operand) ==
    [operation |-> operation, source |-> source, destination |-> destination,
     sib |-> sib, lock |-> lock, address_size |-> address_size,
     segment_override |-> segment_override, repetition |-> repetition,
     operation_size |-> operation_size, displacement |-> displacement,
     operand |-> operand]

\* InstructionT(): the sentinel returned with every result that carries no
\* decoded instruction.
InstructionT_default ==
    InstructionT("Undefined", "None", "None", ScaleIndexBase_default, FALSE,
                 "Default", "None", "None", 0, 0, 0)

\* The decoder's fields as constructed.
InitialDecoder ==
    [phase_ |-> "Instruction",
     modregrm_format_ |-> "MemReg_Reg",
     operation_ |-> "Invalid",
     instr_ |-> 0,
     consumed_ |-> 0,
     operand_bytes_ |-> 0,
     source_ |-> "None",
     destination_ |-> "None",
     displacement_ |-> 0,
     operand_ |-> 0,
     inward_data_ |-> <<0, 0, 0, 0, 0, 0, 0, 0>>,
     sib_ |-> ScaleIndexBase_default,
     displacement_size_ |-> 0,
     operand_size_ |-> 0,
     operation_size_ |-> 0,
     repetition_ |-> "None",
     lock_ |-> FALSE,
     segment_override_ |-> "None",
     address_size_ |-> "Default"]

\* reset_parsing(): the unconditional reset that follows every reported
\* instruction; every field returns to its constructed value.
reset_parsing(d) == InitialDecoder

\* ------------------------------------------------------------------------
\* 64-bit inward_data_, held as its eight bytes, least significant first.

\* inward_data_ = (inward_data_ >> 8) | (uint64_t(source[0]) << 56)
ShiftIn(w, b) == Tail(w) \o <<b>>
\* inward_data_ <<= 8
ShiftLeft8(w) == <<0>> \o SubSeq(w, 1, 7)
\* inward_data_ <<= 16
ShiftLeft16(w) == <<0, 0>> \o SubSeq(w, 1, 6)
\* inward_data_ >> 56
Top8(w) == w[8]
\* The top two bytes of inward_data_ with the later byte as the low one.
Top16_laterByteLow(w) == w[7] * 256 + w[8]
\* inward_data_ >> 48
Top16(w) == w[8] * 256 + w[7]
\* A conversion that keeps the byte as it is.
Int8_unsigned(x) == x % 256
\* int8_t(x)
Int8(x) == IF x % 256 >= 128 THEN (x % 256) - 256 ELSE x % 256
\* int16_t(x)
Int16(x) == IF x % 65536 >= 32768 THEN (x % 65536) - 65536 ELSE x % 65536

\* ------------------------------------------------------------------------
\* The outcome of examining one byte: the decoder goes on, or undefined().
Ok(d) == [undef |-> FALSE, d |-> d]
Undef(d) == [undef |-> TRUE, d |-> d]

\* ------------------------------------------------------------------------
\* The helper macros of decode.

SetOpSrcDestSize(d, op, src, dest, size) ==
    [d EXCEPT !.operation_ = op, !.source_ = src, !.destination_ = dest,
              !.operation_size_ = size]

\* Anything which is complete as soon as the opcode is encountered.
Complete(d, op, src, dest, size) ==
    [SetOpSrcDestSize(d, op, src, dest, size) EXCEPT !.phase_ = "ReadyToPost"]

\* rr, kk and rr, jjkk: a destination register plus an operand.
RegData(d, op, dest, size) ==
    [SetOpSrcDestSize(d, op, "DirectAddress", dest, size) EXCEPT
        !.source_ = "Immediate", !.operand_size_ = size,
        !.phase_ = "DisplacementOrOperand"]

\* Ax, jjkk where the latter is implicitly an address.
RegAddr(d, op, dest, op_size, addr_size) ==
    [SetOpSrcDestSize(d, op, "DirectAddress", dest, op_size) EXCEPT
        !.operand_size_ = addr_size, !.phase_ = "DisplacementOrOperand"]

\* jjkk, Ax where the former is implicitly an address.
AddrReg(d, op, source, op_size, addr_size) ==
    [SetOpSrcDestSize(d, op, source, "DirectAddress", op_size) EXCEPT
        !.operand_size_ = addr_size, !.destination_ = "DirectAddress",
        !.phase_ = "DisplacementOrOperand"]

\* Both `mem/reg, reg` and `reg, mem/reg`, and the group opcodes.
MemRegReg(d, op, format, size) ==
    [d EXCEPT !.operation_ = op, !.phase_ = "ModRegRM",
              !.modregrm_format_ = format, !.operand_size_ = 0,
              !.operation_size_ = size]

\* Jumps with a single byte displacement.
Jump(d, op) ==
    [d EXCEPT !.operation_ = op, !.phase_ = "DisplacementOrOperand",
              !.displacement_size_ = 1]

\* Far CALL and far JMP: fixed four byte operand operations.
Far(d, op) ==
    [d EXCEPT !.operation_ = op, !.phase_ = "DisplacementOrOperand",
              !.operand_size_ = 4]

\* ENTER: a fixed three-byte operation.
Displacement16Operand8(d, op) ==
    [d EXCEPT !.operation_ = op, !.phase_ = "DisplacementOrOperand",
              !.displacement_size_ = 2, !.operand_size_ = 1]

\* case 0xd0: case 0xd1: shift or rotate by one.
ShiftByOne(d) ==
    [d EXCEPT !.phase_ = "ModRegRM", !.modregrm_format_ = "MemRegROL_to_SAR",
              !.operation_size_ = 1 + (d.instr_ % 2),
              !.source_ = "Immediate", !.operand_ = 1]

\* case 0xd2: case 0xd3: shift or rotate by CL.
ShiftByCL(d) ==
    [d EXCEPT !.phase_ = "ModRegRM", !.modregrm_format_ = "MemRegROL_to_SAR",
              !.operation_size_ = 1 + (d.instr_ % 2),
              !.source_ = "eCX"]

\* ------------------------------------------------------------------------
\* The opcode switch. d already holds the byte in instr_ and counts it in
\* consumed_.

\* switch(instr_), cases 0x00-0x3f: the arithmetic blocks, segment pushes/pops and
\* segment-override prefixes.
Opcode00_3f(d, b) ==
    CASE b = 0   -> Ok(MemRegReg(d, "ADD", "MemReg_Reg", 1))                       \* 0x00, line 106
      [] b = 1   -> Ok(MemRegReg(d, "ADD", "MemReg_Reg", 2))                       \* 0x01, line 106
      [] b = 2   -> Ok(MemRegReg(d, "ADD", "Reg_MemReg", 1))                       \* 0x02, line 106
      [] b = 3   -> Ok(MemRegReg(d, "ADD", "Reg_MemReg", 2))                       \* 0x03, line 106
      [] b = 4   -> Ok(RegData(d, "ADD", "eAX", 1))                                \* 0x04, line 106
      [] b = 5   -> Ok(RegData(d, "ADD", "eAX", 2))                                \* 0x05, line 106
      [] b = 6   -> Ok(Complete(d, "PUSH", "ES", "None", 2))                       \* 0x06, line 107
      [] b = 7   -> Ok(Complete(d, "POP", "None", "ES", 2))                        \* 0x07, line 108
      [] b = 8   -> Ok(MemRegReg(d, "OR", "MemReg_Reg", 1))                        \* 0x08, line 110
      [] b = 9   -> Ok(MemRegReg(d, "OR", "MemReg_Reg", 2))                        \* 0x09, line 110
      [] b = 10  -> Ok(MemRegReg(d, "OR", "Reg_MemReg", 1))                        \* 0x0a, line 110
      [] b = 11  -> Ok(MemRegReg(d, "OR", "Reg_MemReg", 2))                        \* 0x0b, line 110
      [] b = 12  -> Ok(RegData(d, "OR", "eAX", 1))                                 \* 0x0c, line 110
      [] b = 13  -> Ok(RegData(d, "OR", "eAX", 2))                                 \* 0x0d, line 110
      [] b = 14  -> Ok(Complete(d, "PUSH", "CS", "None", 2))                       \* 0x0e, line 111
      [] b = 15  -> IF model < i80286 THEN Undef(d) ELSE Ok([d EXCEPT !.phase_ = "InstructionPageF"]) \* 0x0f, line 115
      [] b = 16  -> Ok(MemRegReg(d, "ADC", "MemReg_Reg", 1))                       \* 0x10, line 120
      [] b = 17  -> Ok(MemRegReg(d, "ADC", "MemReg_Reg", 2))                       \* 0x11, line 120
      [] b = 18  -> Ok(MemRegReg(d, "ADC", "Reg_MemReg", 1))                       \* 0x12, line 120
      [] b = 19  -> Ok(MemRegReg(d, "ADC", "Reg_MemReg", 2))                       \* 0x13, line 120
      [] b = 20  -> Ok(RegData(d, "ADC", "eAX", 1))                                \* 0x14, line 120
      [] b = 21  -> Ok(RegData(d, "ADC", "eAX", 2))                                \* 0x15, line 120
      [] b = 22  -> Ok(Complete(d, "PUSH", "SS", "None", 2))                       \* 0x16, line 121
      [] b = 23  -> Ok(Complete(d, "POP", "None", "SS", 2))                        \* 0x17, line 122
      [] b = 24  -> Ok(MemRegReg(d, "SBB", "MemReg_Reg", 1))                       \* 0x18, line 124
      [] b = 25  -> Ok(MemRegReg(d, "SBB", "MemReg_Reg", 2))                       \* 0x19, line 124
      [] b = 26  -> Ok(MemRegReg(d, "SBB", "Reg_MemReg", 1))                       \* 0x1a, line 124
      [] b = 27  -> Ok(MemRegReg(d, "SBB", "Reg_MemReg", 2))                       \* 0x1b, line 124
      [] b = 28  -> Ok(RegData(d, "SBB", "eAX", 1))                                \* 0x1c, line 124
      [] b = 29  -> Ok(RegData(d, "SBB", "eAX", 2))                                \* 0x1d, line 124
      [] b = 30  -> Ok(Complete(d, "PUSH", "DS", "None", 2))                       \* 0x1e, line 125
      [] b = 31  -> Ok(Complete(d, "POP", "None", "DS", 2))                        \* 0x1f, line 126
      [] b = 32  -> Ok(MemRegReg(d, "AND", "MemReg_Reg", 1))                       \* 0x20, line 128
      [] b = 33  -> Ok(MemRegReg(d, "AND", "MemReg_Reg", 2))                       \* 0x21, line 128
      [] b = 34  -> Ok(MemRegReg(d, "AND", "Reg_MemReg", 1))                       \* 0x22, line 128
      [] b = 35  -> Ok(MemRegReg(d, "AND", "Reg_MemReg", 2))                       \* 0x23, line 128
      [] b = 36  -> Ok(RegData(d, "AND", "eAX", 1))                                \* 0x24, line 128
      [] b = 37  -> Ok(RegData(d, "AND", "eAX", 2))                                \* 0x25, line 128
      [] b = 38  -> Ok([d EXCEPT !.segment_override_ = "ES"])                      \* 0x26, line 129
      [] b = 39  -> Ok(Complete(d, "DAA", "eAX", "eAX", 1))                        \* 0x27, line 130
      [] b = 40  -> Ok(MemRegReg(d, "SUB", "MemReg_Reg", 1))                       \* 0x28, line 132
      [] b = 41  -> Ok(MemRegReg(d, "SUB", "MemReg_Reg", 2))                       \* 0x29, line 132
      [] b = 42  -> Ok(MemRegReg(d, "SUB", "Reg_MemReg", 1))                       \* 0x2a, line 132
      [] b = 43  -> Ok(MemRegReg(d, "SUB", "Reg_MemReg", 2))                       \* 0x2b, line 132
      [] b = 44  -> Ok(RegData(d, "SUB", "eAX", 1))                                \* 0x2c, line 132
      [] b = 45  -> Ok(RegData(d, "SUB", "eAX", 2))                                \* 0x2d, line 132
      [] b = 46  -> Ok([d EXCEPT !.segment_override_ = "CS"])                      \* 0x2e, line 133
      [] b = 47  -> Ok(Complete(d, "DAS", "eAX", "eAX", 1))                        \* 0x2f, line 134
      [] b = 48  -> Ok(MemRegReg(d, "XOR", "MemReg_Reg", 1))                       \* 0x30, line 136
      [] b = 49  -> Ok(MemRegReg(d, "XOR", "MemReg_Reg", 2))                       \* 0x31, line 136
      [] b = 50  -> Ok(MemRegReg(d, "XOR", "Reg_MemReg", 1))                       \* 0x32, line 136
      [] b = 51  -> Ok(MemRegReg(d, "XOR", "Reg_MemReg", 2))                       \* 0x33, line 136
      [] b = 52  -> Ok(RegData(d, "XOR", "eAX", 1))                                \* 0x34, line 136
      [] b = 53  -> Ok(RegData(d, "XOR", "eAX", 2))                                \* 0x35, line 136
      [] b = 54  -> Ok([d EXCEPT !.segment_override_ = "SS"])                      \* 0x36, line 137
      [] b = 55  -> Ok(Complete(d, "AAA", "eAX", "eAX", 2))                        \* 0x37, line 138
      [] b = 56  -> Ok(MemRegReg(d, "CMP", "MemReg_Reg", 1))                       \* 0x38, line 140
      [] b = 57  -> Ok(MemRegReg(d, "CMP", "MemReg_Reg", 2))                       \* 0x39, line 140
      [] b = 58  -> Ok(MemRegReg(d, "CMP", "Reg_MemReg", 1))                       \* 0x3a, line 140
      [] b = 59  -> Ok(MemRegReg(d, "CMP", "Reg_MemReg", 2))                       \* 0x3b, line 140
      [] b = 60  -> Ok(RegData(d, "CMP", "eAX", 1))                                \* 0x3c, line 140
      [] b = 61  -> Ok(RegData(d, "CMP", "eAX", 2))                                \* 0x3d, line 140
      [] b = 62  -> Ok([d EXCEPT !.segment_override_ = "DS"])                      \* 0x3e, line 141
      [] b = 63  -> Ok(Complete(d, "AAS", "eAX", "eAX", 2))                        \* 0x3f, line 142
      [] OTHER   -> Undef(d)                                                       \* default, line 96

\* switch(instr_), cases 0x40-0x7f: register blocks, the 80186+ additions and the
\* short conditional jumps.
Opcode40_7f(d, b) ==
    CASE b = 64  -> Ok(Complete(d, "INC", "eAX", "eAX", 2))                        \* 0x40, line 156
      [] b = 65  -> Ok(Complete(d, "INC", "eCX", "eCX", 2))                        \* 0x41, line 156
      [] b = 66  -> Ok(Complete(d, "INC", "eDX", "eDX", 2))                        \* 0x42, line 156
      [] b = 67  -> Ok(Complete(d, "INC", "eBX", "eBX", 2))                        \* 0x43, line 156
      [] b = 68  -> Ok(Complete(d, "INC", "eSP", "eSP", 2))                        \* 0x44, line 156
      [] b = 69  -> Ok(Complete(d, "INC", "eBP", "eBP", 2))                        \* 0x45, line 156
      [] b = 70  -> Ok(Complete(d, "INC", "eSI", "eSI", 2))                        \* 0x46, line 156
      [] b = 71  -> Ok(Complete(d, "INC", "eDI", "eDI", 2))                        \* 0x47, line 156
      [] b = 72  -> Ok(Complete(d, "DEC", "eAX", "eAX", 2))                        \* 0x48, line 157
      [] b = 73  -> Ok(Complete(d, "DEC", "eCX", "eCX", 2))                        \* 0x49, line 157
      [] b = 74  -> Ok(Complete(d, "DEC", "eDX", "eDX", 2))                        \* 0x4a, line 157
      [] b = 75  -> Ok(Complete(d, "DEC", "eBX", "eBX", 2))                        \* 0x4b, line 157
      [] b = 76  -> Ok(Complete(d, "DEC", "eSP", "eSP", 2))                        \* 0x4c, line 157
      [] b = 77  -> Ok(Complete(d, "DEC", "eBP", "eBP", 2))                        \* 0x4d, line 157
      [] b = 78  -> Ok(Complete(d, "DEC", "eSI", "eSI", 2))                        \* 0x4e, line 157
      [] b = 79  -> Ok(Complete(d, "DEC", "eDI", "eDI", 2))                        \* 0x4f, line 157
      [] b = 80  -> Ok(Complete(d, "PUSH", "eAX", "eAX", 2))                       \* 0x50, line 158
      [] b = 81  -> Ok(Complete(d, "PUSH", "eCX", "eCX", 2))                       \* 0x51, line 158
      [] b = 82  -> Ok(Complete(d, "PUSH", "eDX", "eDX", 2))                       \* 0x52, line 158
      [] b = 83  -> Ok(Complete(d, "PUSH", "eBX", "eBX", 2))                       \* 0x53, line 158
      [] b = 84  -> Ok(Complete(d, "PUSH", "eSP", "eSP", 2))                       \* 0x54, line 158
      [] b = 85  -> Ok(Complete(d, "PUSH", "eBP", "eBP", 2))                       \* 0x55, line 158
      [] b = 86  -> Ok(Complete(d, "PUSH", "eSI", "eSI", 2))                       \* 0x56, line 158
      [] b = 87  -> Ok(Complete(d, "PUSH", "eDI", "eDI", 2))                       \* 0x57, line 158
      [] b = 88  -> Ok(Complete(d, "POP", "eAX", "eAX", 2))                        \* 0x58, line 159
      [] b = 89  -> Ok(Complete(d, "POP", "eCX", "eCX", 2))                        \* 0x59, line 159
      [] b = 90  -> Ok(Complete(d, "POP", "eDX", "eDX", 2))                        \* 0x5a, line 159
      [] b = 91  -> Ok(Complete(d, "POP", "eBX", "eBX", 2))                        \* 0x5b, line 159
      [] b = 92  -> Ok(Complete(d, "POP", "eSP", "eSP", 2))                        \* 0x5c, line 159
      [] b = 93  -> Ok(Complete(d, "POP", "eBP", "eBP", 2))                        \* 0x5d, line 159
      [] b = 94  -> Ok(Complete(d, "POP", "eSI", "eSI", 2))                        \* 0x5e, line 159
      [] b = 95  -> Ok(Complete(d, "POP", "eDI", "eDI", 2))                        \* 0x5f, line 159
      [] b = 96  -> IF model < i80186 THEN Undef(d) ELSE Ok(Complete(d, "PUSHA", "None", "None", 2)) \* 0x60, line 163
      [] b = 97  -> IF model < i80186 THEN Undef(d) ELSE Ok(Complete(d, "POPA", "None", "None", 2)) \* 0x61, line 167
      [] b = 98  -> IF model < i80186 THEN Undef(d) ELSE Ok(MemRegReg(d, "BOUND", "Reg_MemReg", 2)) \* 0x62, line 171
      [] b = 99  -> IF model < i80286 THEN Undef(d) ELSE Ok(MemRegReg(d, "ARPL", "MemReg_Reg", 2)) \* 0x63, line 175
      [] b = 108 -> IF model < i80186 THEN Undef(d) ELSE Ok(Complete(d, "INS", "None", "None", 1)) \* 0x6c, line 179
      [] b = 109 -> IF model < i80186 THEN Undef(d) ELSE Ok(Complete(d, "INS", "None", "None", 2)) \* 0x6d, line 183
      [] b = 110 -> IF model < i80186 THEN Undef(d) ELSE Ok(Complete(d, "OUTS", "None", "None", 1)) \* 0x6e, line 187
      [] b = 111 -> IF model < i80186 THEN Undef(d) ELSE Ok(Complete(d, "OUTS", "None", "None", 2)) \* 0x6f, line 191
      [] b = 112 -> Ok(Jump(d, "JO"))                                              \* 0x70, line 196
      [] b = 113 -> Ok(Jump(d, "JNO"))                                             \* 0x71, line 197
      [] b = 114 -> Ok(Jump(d, "JB"))                                              \* 0x72, line 198
      [] b = 115 -> Ok(Jump(d, "JNB"))                                             \* 0x73, line 199
      [] b = 116 -> Ok(Jump(d, "JE"))                                              \* 0x74, line 200
      [] b = 117 -> Ok(Jump(d, "JNE"))                                             \* 0x75, line 201
      [] b = 118 -> Ok(Jump(d, "JBE"))                                             \* 0x76, line 202
      [] b = 119 -> Ok(Jump(d, "JNBE"))                                            \* 0x77, line 203
      [] b = 120 -> Ok(Jump(d, "JS"))                                              \* 0x78, line 204
      [] b = 121 -> Ok(Jump(d, "JNS"))                                             \* 0x79, line 205
      [] b = 122 -> Ok(Jump(d, "JP"))                                              \* 0x7a, line 206
      [] b = 123 -> Ok(Jump(d, "JNP"))                                             \* 0x7b, line 207
      [] b = 124 -> Ok(Jump(d, "JL"))                                              \* 0x7c, line 208
      [] b = 125 -> Ok(Jump(d, "JNL"))                                             \* 0x7d, line 209
      [] b = 126 -> Ok(Jump(d, "JLE"))                                             \* 0x7e, line 210
      [] b = 127 -> Ok(Jump(d, "JNLE"))                                            \* 0x7f, line 211
      [] OTHER   -> Undef(d)                                                       \* default, line 96

\* switch(instr_), cases 0x80-0xbf.
Opcode80_bf(d, b) ==
    CASE b = 128 -> Ok(MemRegReg(d, "Invalid", "MemRegADD_to_CMP", 1))             \* 0x80, line 213
      [] b = 129 -> Ok(MemRegReg(d, "Invalid", "MemRegADD_to_CMP", 2))             \* 0x81, line 214
      [] b = 130 -> Ok(MemRegReg(d, "Invalid", "MemRegADC_to_CMP", 1))             \* 0x82, line 215
      [] b = 131 -> Ok(MemRegReg(d, "Invalid", "MemRegADC_to_CMP", 2))             \* 0x83, line 216
      [] b = 132 -> Ok(MemRegReg(d, "TEST", "MemReg_Reg", 1))                      \* 0x84, line 218
      [] b = 133 -> Ok(MemRegReg(d, "TEST", "MemReg_Reg", 2))                      \* 0x85, line 219
      [] b = 134 -> Ok(MemRegReg(d, "XCHG", "Reg_MemReg", 1))                      \* 0x86, line 220
      [] b = 135 -> Ok(MemRegReg(d, "XCHG", "Reg_MemReg", 2))                      \* 0x87, line 221
      [] b = 136 -> Ok(MemRegReg(d, "MOV", "MemReg_Reg", 1))                       \* 0x88, line 222
      [] b = 137 -> Ok(MemRegReg(d, "MOV", "MemReg_Reg", 2))                       \* 0x89, line 223
      [] b = 138 -> Ok(MemRegReg(d, "MOV", "Reg_MemReg", 1))                       \* 0x8a, line 224
      [] b = 139 -> Ok(MemRegReg(d, "MOV", "Reg_MemReg", 2))                       \* 0x8b, line 225
      [] b = 141 -> Ok(MemRegReg(d, "LEA", "Reg_MemReg", 2))                       \* 0x8d, line 227
      [] b = 142 -> Ok(MemRegReg(d, "MOV", "SegReg", 2))                           \* 0x8e, line 228
      [] b = 143 -> Ok(MemRegReg(d, "POP", "MemRegPOP", 2))                        \* 0x8f, line 229
      [] b = 144 -> Ok(Complete(d, "NOP", "None", "None", 0))                      \* 0x90, line 231
      [] b = 145 -> Ok(Complete(d, "XCHG", "eAX", "eCX", 2))                       \* 0x91, line 232
      [] b = 146 -> Ok(Complete(d, "XCHG", "eAX", "eDX", 2))                       \* 0x92, line 233
      [] b = 147 -> Ok(Complete(d, "XCHG", "eAX", "eBX", 2))                       \* 0x93, line 234
      [] b = 148 -> Ok(Complete(d, "XCHG", "eAX", "eSP", 2))                       \* 0x94, line 235
      [] b = 149 -> Ok(Complete(d, "XCHG", "eAX", "eBP", 2))                       \* 0x95, line 236
      [] b = 150 -> Ok(Complete(d, "XCHG", "eAX", "eSI", 2))                       \* 0x96, line 237
      [] b = 151 -> Ok(Complete(d, "XCHG", "eAX", "eDI", 2))                       \* 0x97, line 238
      [] b = 152 -> Ok(Complete(d, "CBW", "eAX", "AH", 1))                         \* 0x98, line 240
      [] b = 153 -> Ok(Complete(d, "CWD", "eAX", "eDX", 2))                        \* 0x99, line 241
      [] b = 154 -> Ok(Far(d, "CALLF"))                                            \* 0x9a, line 242
      [] b = 155 -> Ok(Complete(d, "WAIT", "None", "None", 0))                     \* 0x9b, line 243
      [] b = 156 -> Ok(Complete(d, "PUSHF", "None", "None", 2))                    \* 0x9c, line 244
      [] b = 157 -> Ok(Complete(d, "POPF", "None", "None", 2))                     \* 0x9d, line 245
      [] b = 158 -> Ok(Complete(d, "SAHF", "None", "None", 1))                     \* 0x9e, line 246
      [] b = 159 -> Ok(Complete(d, "LAHF", "None", "None", 1))                     \* 0x9f, line 247
      [] b = 160 -> Ok(RegAddr(d, "MOV", "eAX", 1, 1))                             \* 0xa0, line 249
      [] b = 161 -> Ok(RegAddr(d, "MOV", "eAX", 2, 2))                             \* 0xa1, line 250
      [] b = 162 -> Ok(AddrReg(d, "MOV", "eAX", 1, 1))                             \* 0xa2, line 251
      [] b = 163 -> Ok(AddrReg(d, "MOV", "eAX", 2, 2))                             \* 0xa3, line 252
      [] b = 164 -> Ok(Complete(d, "MOVS", "None", "None", 1))                     \* 0xa4, line 254
      [] b = 165 -> Ok(Complete(d, "MOVS", "None", "None", 2))                     \* 0xa5, line 255
      [] b = 166 -> Ok(Complete(d, "CMPS", "None", "None", 1))                     \* 0xa6, line 256
      [] b = 167 -> Ok(Complete(d, "CMPS", "None", "None", 2))                     \* 0xa7, line 257
      [] b = 168 -> Ok(RegData(d, "TEST", "eAX", 1))                               \* 0xa8, line 258
      [] b = 169 -> Ok(RegData(d, "TEST", "eAX", 2))                               \* 0xa9, line 259
      [] b = 170 -> Ok(Complete(d, "STOS", "None", "None", 1))                     \* 0xaa, line 260
      [] b = 171 -> Ok(Complete(d, "STOS", "None", "None", 2))                     \* 0xab, line 261
      [] b = 172 -> Ok(Complete(d, "LODS", "None", "None", 1))                     \* 0xac, line 262
      [] b = 173 -> Ok(Complete(d, "LODS", "None", "None", 2))                     \* 0xad, line 263
      [] b = 174 -> Ok(Complete(d, "SCAS", "None", "None", 1))                     \* 0xae, line 264
      [] b = 175 -> Ok(Complete(d, "SCAS", "None", "None", 2))                     \* 0xaf, line 265
      [] b = 176 -> Ok(RegData(d, "MOV", "eAX", 1))                                \* 0xb0, line 267
      [] b = 177 -> Ok(RegData(d, "MOV", "eCX", 1))                                \* 0xb1, line 268
      [] b = 178 -> Ok(RegData(d, "MOV", "eDX", 1))                                \* 0xb2, line 269
      [] b = 179 -> Ok(RegData(d, "MOV", "eBX", 1))                                \* 0xb3, line 270
      [] b = 180 -> Ok(RegData(d, "MOV", "AH", 1))                                 \* 0xb4, line 271
      [] b = 181 -> Ok(RegData(d, "MOV", "CH", 1))                                 \* 0xb5, line 272
      [] b = 182 -> Ok(RegData(d, "MOV", "DH", 1))                                 \* 0xb6, line 273
      [] b = 183 -> Ok(RegData(d, "MOV", "BH", 1))                                 \* 0xb7, line 274
      [] b = 184 -> Ok(RegData(d, "MOV", "eAX", 2))                                \* 0xb8, line 275
      [] b = 185 -> Ok(RegData(d, "MOV", "eCX", 2))                                \* 0xb9, line 276
      [] b = 186 -> Ok(RegData(d, "MOV", "eDX", 2))                                \* 0xba, line 277
      [] b = 187 -> Ok(RegData(d, "MOV", "eBX", 2))                                \* 0xbb, line 278
      [] b = 188 -> Ok(RegData(d, "MOV", "eSP", 2))                                \* 0xbc, line 279
      [] b = 189 -> Ok(RegData(d, "MOV", "eBP", 2))                                \* 0xbd, line 280
      [] b = 190 -> Ok(RegData(d, "MOV", "eSI", 2))                                \* 0xbe, line 281
      [] b = 191 -> Ok(RegData(d, "MOV", "eDI", 2))                                \* 0xbf, line 282
      [] OTHER   -> Undef(d)                                                       \* default, line 96

\* switch(instr_), cases 0xc0-0xff.
Opcodec0_ff(d, b) ==
    CASE b = 194 -> Ok(RegData(d, "RETN", "None", 2))                              \* 0xc2, line 284
      [] b = 195 -> Ok(Complete(d, "RETN", "None", "None", 2))                     \* 0xc3, line 285
      [] b = 196 -> Ok(MemRegReg(d, "LES", "Reg_MemReg", 2))                       \* 0xc4, line 286
      [] b = 197 -> Ok(MemRegReg(d, "LDS", "Reg_MemReg", 2))                       \* 0xc5, line 287
      [] b = 198 -> Ok(MemRegReg(d, "MOV", "MemRegMOV", 1))                        \* 0xc6, line 288
      [] b = 199 -> Ok(MemRegReg(d, "MOV", "MemRegMOV", 2))                        \* 0xc7, line 289
      [] b = 200 -> IF model < i80186 THEN Undef(d) ELSE Ok(Displacement16Operand8(d, "ENTER")) \* 0xc8, line 291
      [] b = 201 -> IF model < i80186 THEN Undef(d) ELSE Ok(Complete(d, "LEAVE", "None", "None", 0)) \* 0xc9, line 295
      [] b = 202 -> Ok(RegData(d, "RETF", "None", 2))                              \* 0xca, line 300
      [] b = 203 -> Ok(Complete(d, "RETF", "None", "None", 4))                     \* 0xcb, line 301
      [] b = 204 -> Ok(Complete(d, "INT3", "None", "None", 0))                     \* 0xcc, line 303
      [] b = 205 -> Ok(RegData(d, "INT", "None", 1))                               \* 0xcd, line 304
      [] b = 206 -> Ok(Complete(d, "INTO", "None", "None", 0))                     \* 0xce, line 305
      [] b = 207 -> Ok(Complete(d, "IRET", "None", "None", 0))                     \* 0xcf, line 306
      [] b = 208 -> Ok(ShiftByOne(d))                                              \* 0xd0, line 308
      [] b = 209 -> Ok(ShiftByOne(d))                                              \* 0xd1, line 308
      [] b = 210 -> Ok(ShiftByCL(d))                                               \* 0xd2, line 315
      [] b = 211 -> Ok(ShiftByCL(d))                                               \* 0xd3, line 315
      [] b = 212 -> Ok(RegData(d, "AAM", "eAX", 1))                                \* 0xd4, line 321
      [] b = 213 -> Ok(RegData(d, "AAD", "eAX", 1))                                \* 0xd5, line 322
      [] b = 215 -> Ok(Complete(d, "XLAT", "None", "None", 1))                     \* 0xd7, line 324
      [] b = 216 -> Ok(MemRegReg(d, "ESC", "MemReg_Reg", 0))                       \* 0xd8, line 326
      [] b = 217 -> Ok(MemRegReg(d, "ESC", "MemReg_Reg", 0))                       \* 0xd9, line 327
      [] b = 218 -> Ok(MemRegReg(d, "ESC", "MemReg_Reg", 0))                       \* 0xda, line 328
      [] b = 219 -> Ok(MemRegReg(d, "ESC", "MemReg_Reg", 0))                       \* 0xdb, line 329
      [] b = 220 -> Ok(MemRegReg(d, "ESC", "MemReg_Reg", 0))                       \* 0xdc, line 330
      [] b = 221 -> Ok(MemRegReg(d, "ESC", "MemReg_Reg", 0))                       \* 0xdd, line 331
      [] b = 222 -> Ok(MemRegReg(d, "ESC", "MemReg_Reg", 0))                       \* 0xde, line 332
      [] b = 223 -> Ok(MemRegReg(d, "ESC", "MemReg_Reg", 0))                       \* 0xdf, line 333
      [] b = 224 -> Ok(Jump(d, "LOOPNE"))                                          \* 0xe0, line 335
      [] b = 225 -> Ok(Jump(d, "LOOPE"))                                           \* 0xe1, line 336
      [] b = 226 -> Ok(Jump(d, "LOOP"))                                            \* 0xe2, line 337
      [] b = 227 -> Ok(Jump(d, "JPCX"))                                            \* 0xe3, line 338
      [] b = 228 -> Ok(RegAddr(d, "IN", "eAX", 1, 1))                              \* 0xe4, line 340
      [] b = 229 -> Ok(RegAddr(d, "IN", "eAX", 2, 1))                              \* 0xe5, line 341
      [] b = 230 -> Ok(AddrReg(d, "OUT", "eAX", 1, 1))                             \* 0xe6, line 342
      [] b = 231 -> Ok(AddrReg(d, "OUT", "eAX", 2, 1))                             \* 0xe7, line 343
      [] b = 232 -> Ok(RegData(d, "CALLD", "None", 2))                             \* 0xe8, line 345
      [] b = 233 -> Ok(RegData(d, "JMPN", "None", 2))                              \* 0xe9, line 346
      [] b = 234 -> Ok(Far(d, "JMPF"))                                             \* 0xea, line 347
      [] b = 235 -> Ok(Jump(d, "JMPN"))                                            \* 0xeb, line 348
      [] b = 236 -> Ok(Complete(d, "IN", "eDX", "eAX", 1))                         \* 0xec, line 350
      [] b = 237 -> Ok(Complete(d, "IN", "eDX", "eAX", 1))                         \* 0xed, line 351
      [] b = 238 -> Ok(Complete(d, "OUT", "eAX", "eDX", 1))                        \* 0xee, line 352
      [] b = 239 -> Ok(Complete(d, "OUT", "eAX", "eDX", 2))                        \* 0xef, line 353
      [] b = 240 -> Ok([d EXCEPT !.lock_ = TRUE])                                  \* 0xf0, line 355
      [] b = 242 -> Ok([d EXCEPT !.repetition_ = "RepNE"])                         \* 0xf2, line 356
      [] b = 243 -> Ok([d EXCEPT !.repetition_ = "RepE"])                          \* 0xf3, line 357
      [] b = 244 -> Ok(Complete(d, "HLT", "None", "None", 1))                      \* 0xf4, line 359
      [] b = 245 -> Ok(Complete(d, "CMC", "None", "None", 1))                      \* 0xf5, line 360
      [] b = 246 -> Ok(MemRegReg(d, "Invalid", "MemRegTEST_to_IDIV", 1))           \* 0xf6, line 361
      [] b = 247 -> Ok(MemRegReg(d, "Invalid", "MemRegTEST_to_IDIV", 2))           \* 0xf7, line 362
      [] b = 248 -> Ok(Complete(d, "CLC", "None", "None", 1))                      \* 0xf8, line 364
      [] b = 249 -> Ok(Complete(d, "STC", "None", "None", 1))                      \* 0xf9, line 365
      [] b = 250 -> Ok(Complete(d, "CLI", "None", "None", 1))                      \* 0xfa, line 366
      [] b = 251 -> Ok(Complete(d, "STI", "None", "None", 1))                      \* 0xfb, line 367
      [] b = 252 -> Ok(Complete(d, "CLD", "None", "None", 1))                      \* 0xfc, line 368
      [] b = 253 -> Ok(Complete(d, "STD", "None", "None", 1))                      \* 0xfd, line 369
      [] b = 254 -> Ok(MemRegReg(d, "Invalid", "MemRegINC_DEC", 1))                \* 0xfe, line 371
      [] b = 255 -> Ok(MemRegReg(d, "Invalid", "MemRegINC_to_PUSH", 1))            \* 0xff, line 372
      [] OTHER   -> Undef(d)                                                       \* default, line 96

\* A switch in which a repetition prefix ends the instruction at once.
Opcode_repCompletes(d, b) ==
    CASE b = 242 \/ b = 243 -> Ok(Complete(d, "Invalid", "None", "None", 0))
      [] b < 64  -> Opcode00_3f(d, b)
      [] b < 128 -> Opcode40_7f(d, b)
      [] b < 192 -> Opcode80_bf(d, b)
      [] OTHER   -> Opcodec0_ff(d, b)

\* A switch whose PUSHA entry lacks its model test.
Opcode_pushaEverywhere(d, b) ==
    CASE b = 96  -> Ok(Complete(d, "PUSHA", "None", "None", 2))
      [] b < 64  -> Opcode00_3f(d, b)
      [] b < 128 -> Opcode40_7f(d, b)
      [] b < 192 -> Opcode80_bf(d, b)
      [] OTHER   -> Opcodec0_ff(d, b)

\* A switch whose 0x0f entry lacks its model test.
Opcode_escapesEverywhere(d, b) ==
    CASE b = 15  -> Ok([d EXCEPT !.phase_ = "InstructionPageF"])
      [] b < 64  -> Opcode00_3f(d, b)
      [] b < 128 -> Opcode40_7f(d, b)
      [] b < 192 -> Opcode80_bf(d, b)
      [] OTHER   -> Opcodec0_ff(d, b)

\* A switch with an entry for 0x8c, the MOV from a segment register of the
\* processor's own opcode map.
Opcode_assigns8c(d, b) ==
    CASE b = 140 -> Ok(MemRegReg(d, "MOV", "SegReg", 2))
      [] b < 64  -> Opcode00_3f(d, b)
      [] b < 128 -> Opcode40_7f(d, b)
      [] b < 192 -> Opcode80_bf(d, b)
      [] OTHER   -> Opcodec0_ff(d, b)

\* A switch whose ENTER entry lacks its model test.
Opcode_entersEverywhere(d, b) ==
    CASE b = 200 -> Ok(Displacement16Operand8(d, "ENTER"))
      [] b < 64  -> Opcode00_3f(d, b)
      [] b < 128 -> Opcode40_7f(d, b)
      [] b < 192 -> Opcode80_bf(d, b)
      [] OTHER   -> Opcodec0_ff(d, b)

\* A switch whose INC SI waits for a ModRegRM byte.
Opcode_incTakesModRM(d, b) ==
    CASE b = 70 -> Ok(MemRegReg(d, "INC", "MemRegINC_DEC", 2))
      [] b < 64  -> Opcode00_3f(d, b)
      [] b < 128 -> Opcode40_7f(d, b)
      [] b < 192 -> Opcode80_bf(d, b)
      [] OTHER   -> Opcodec0_ff(d, b)

\* A switch whose CMP r8,r/m8 stores to the ModRegRM operand.
Opcode_cmpStores(d, b) ==
    CASE b = 58 -> Ok(MemRegReg(d, "CMP", "MemReg_Reg", 1))
      [] b < 64  -> Opcode00_3f(d, b)
      [] b < 128 -> Opcode40_7f(d, b)
      [] b < 192 -> Opcode80_bf(d, b)
      [] OTHER   -> Opcodec0_ff(d, b)

\* switch(instr_) of the Instruction phase.
Opcode(d, b) ==
    CASE b < 64  -> Opcode00_3f(d, b)
      [] b < 128 -> Opcode40_7f(d, b)
      [] b < 192 -> Opcode80_bf(d, b)
      [] OTHER   -> Opcodec0_ff(d, b)

\* An F page whose LOADALL entry lacks its model test.
OpcodePageF_loadallEverywhere(d) ==
    CASE d.instr_ = 0 -> Ok(MemRegReg(d, "Invalid", "MemRegSLDT_to_VERW", 2))
      [] d.instr_ = 1 -> Ok(MemRegReg(d, "Invalid", "MemRegSGDT_to_LMSW", 2))
      [] d.instr_ = 2 -> Ok(MemRegReg(d, "LAR", "Reg_MemReg", 2))
      [] d.instr_ = 3 -> Ok(MemRegReg(d, "LSL", "Reg_MemReg", 2))
      [] d.instr_ = 5 -> Ok(Complete(d, "LOADALL", "None", "None", 0))
      [] d.instr_ = 6 -> Ok(Complete(d, "CLTS", "None", "None", 1))
      [] OTHER        -> Undef(d)

\* An F page whose unknown second bytes send the decoder back for another
\* opcode byte, as after a prefix.
OpcodePageF_backToOpcode(d) ==
    CASE d.instr_ = 0 -> Ok(MemRegReg(d, "Invalid", "MemRegSLDT_to_VERW", 2))
      [] d.instr_ = 1 -> Ok(MemRegReg(d, "Invalid", "MemRegSGDT_to_LMSW", 2))
      [] d.instr_ = 2 -> Ok(MemRegReg(d, "LAR", "Reg_MemReg", 2))
      [] d.instr_ = 3 -> Ok(MemRegReg(d, "LSL", "Reg_MemReg", 2))
      [] d.instr_ = 5 -> IF model # i80286 THEN Undef(d)
                         ELSE Ok(Complete(d, "LOADALL", "None", "None", 0))
      [] d.instr_ = 6 -> Ok(Complete(d, "CLTS", "None", "None", 1))
      [] OTHER        -> Ok([d EXCEPT !.phase_ = "Instruction"])

\* switch(instr_) of the InstructionPageF phase; d.instr_ is what instr_
\* holds of 0x0f00 | byte.
OpcodePageF(d) ==
    CASE d.instr_ = 0 -> Ok(MemRegReg(d, "Invalid", "MemRegSLDT_to_VERW", 2))
      [] d.instr_ = 1 -> Ok(MemRegReg(d, "Invalid", "MemRegSGDT_to_LMSW", 2))
      [] d.instr_ = 2 -> Ok(MemRegReg(d, "LAR", "Reg_MemReg", 2))
      [] d.instr_ = 3 -> Ok(MemRegReg(d, "LSL", "Reg_MemReg", 2))
      [] d.instr_ = 5 -> IF model # i80286 THEN Undef(d)
                         ELSE Ok(Complete(d, "LOADALL", "None", "None", 0))
      [] d.instr_ = 6 -> Ok(Complete(d, "CLTS", "None", "None", 1))
      [] OTHER        -> Undef(d)

\* ------------------------------------------------------------------------
\* The ModRegRM byte.

\* A reg_table whose byte row names the word registers.
reg_table_wordOnly(size, i) ==
    CASE size = 0 -> Source_zero
      [] size \in {1, 2} -> <<"eAX", "eCX", "eDX", "eBX", "eSP", "eBP", "eSI", "eDI">>[i + 1]
      [] OTHER    -> "OutOfBounds"

\* reg_table[size][i]
reg_table(size, i) ==
    CASE size = 0 -> Source_zero
      [] size = 1 -> <<"eAX", "eCX", "eDX", "eBX", "AH", "CH", "DH", "BH">>[i + 1]
      [] size = 2 -> <<"eAX", "eCX", "eDX", "eBX", "eSP", "eBP", "eSI", "eDI">>[i + 1]
      [] OTHER    -> "OutOfBounds"

\* rm_table[rm]
rm_table(rm) ==
    <<ScaleIndexBase(0, "eBX", "eSI"), ScaleIndexBase(0, "eBX", "eDI"),
      ScaleIndexBase(0, "eBP", "eSI"), ScaleIndexBase(0, "eBP", "eDI"),
      ScaleIndexBase(0, "None", "eSI"), ScaleIndexBase(0, "None", "eDI"),
      ScaleIndexBase(0, "None", "eBP"), ScaleIndexBase(0, "None", "eBX")>>[rm + 1]

\* A seg_table in the order of the names.
seg_table_byName(reg) == <<"CS", "DS", "ES", "SS">>[reg + 1]

\* seg_table[reg]
seg_table(reg) == <<"ES", "CS", "SS", "DS">>[reg + 1]

\* A switch(mod) that takes mod 0 with rm 6 as an absolute address: two
\* displacement bytes and no base register.
ModRegRMOperand_absolute(d, mod, rm) ==
    CASE mod = 0 /\ rm = 6 ->
           [undef |-> FALSE, memreg |-> "Indirect",
            d |-> [d EXCEPT !.displacement_size_ = 2,
                            !.sib_ = ScaleIndexBase(0, "None", "None")]]
      [] mod = 0 ->
           [undef |-> FALSE, memreg |-> "Indirect",
            d |-> [d EXCEPT !.sib_ = rm_table(rm)]]
      [] mod = 3 ->
           [undef |-> d.operation_ = "LES" \/ d.operation_ = "LDS",
            memreg |-> reg_table(d.operation_size_, rm), d |-> d]
      [] OTHER ->
           [undef |-> FALSE, memreg |-> "Indirect",
            d |-> [d EXCEPT !.displacement_size_ = 1 + (IF mod = 2 THEN 1 ELSE 0),
                            !.sib_ = rm_table(rm)]]

\* A switch(mod) that lets LES and LDS name a register.
ModRegRMOperand_registerPointer(d, mod, rm) ==
    CASE mod = 0 ->
           [undef |-> FALSE, memreg |-> "Indirect",
            d |-> [d EXCEPT !.sib_ = rm_table(rm)]]
      [] mod = 3 ->
           [undef |-> FALSE,
            memreg |-> reg_table(d.operation_size_, rm), d |-> d]
      [] OTHER ->
           [undef |-> FALSE, memreg |-> "Indirect",
            d |-> [d EXCEPT !.displacement_size_ = 1 + (IF mod = 2 THEN 1 ELSE 0),
                            !.sib_ = rm_table(rm)]]

\* A switch(mod) whose mod 2 asks for a four-byte displacement.
ModRegRMOperand_wideDisplacement(d, mod, rm) ==
    CASE mod = 0 ->
           [undef |-> FALSE, memreg |-> "Indirect",
            d |-> [d EXCEPT !.sib_ = rm_table(rm)]]
      [] mod = 3 ->
           [undef |-> d.operation_ = "LES" \/ d.operation_ = "LDS",
            memreg |-> reg_table(d.operation_size_, rm), d |-> d]
      [] OTHER ->
           [undef |-> FALSE, memreg |-> "Indirect",
            d |-> [d EXCEPT !.displacement_size_ = IF mod = 2 THEN 4 ELSE 1,
                            !.sib_ = rm_table(rm)]]

\* switch(mod): the memory or register operand. The result adds memreg to
\* the outcome.
ModRegRMOperand(d, mod, rm) ==
    CASE mod = 0 ->
           [undef |-> FALSE, memreg |-> "Indirect",
            d |-> [d EXCEPT !.sib_ = rm_table(rm)]]
      [] mod = 3 ->
           [undef |-> d.operation_ = "LES" \/ d.operation_ = "LDS",
            memreg |-> reg_table(d.operation_size_, rm), d |-> d]
      [] OTHER ->
           [undef |-> FALSE, memreg |-> "Indirect",
            d |-> [d EXCEPT !.displacement_size_ = 1 + (IF mod = 2 THEN 1 ELSE 0),
                            !.sib_ = rm_table(rm)]]

\* Group tables in which reg 1 after 0xf6 and 0xf7 is TEST again.
GroupOperation_testAlias(format, reg) ==
    CASE format = "MemRegTEST_to_IDIV" ->
           <<"TEST", "TEST", "NOT", "NEG", "MUL", "IMUL", "DIV", "IDIV">>[reg + 1]
      [] format = "MemRegROL_to_SAR" ->
           <<"ROL", "", "ROR", "RCL", "RCR", "SAL", "SHR", "SAR">>[reg + 1]
      [] format = "MemRegINC_DEC" ->
           <<"INC", "DEC", "", "", "", "", "", "">>[reg + 1]
      [] format = "MemRegINC_to_PUSH" ->
           <<"INC", "DEC", "CALLN", "CALLF", "JMPN", "JMPF", "PUSH", "">>[reg + 1]
      [] format = "MemRegADD_to_CMP" ->
           <<"ADD", "OR", "ADC", "SBB", "AND", "SUB", "XOR", "CMP">>[reg + 1]
      [] format = "MemRegADC_to_CMP" ->
           <<"ADD", "", "ADC", "SBB", "", "SUB", "", "CMP">>[reg + 1]
      [] format = "MemRegSLDT_to_VERW" ->
           <<"SLDT", "STR", "LLDT", "LTR", "VERR", "VERW", "", "">>[reg + 1]
      [] format = "MemRegSGDT_to_LMSW" ->
           <<"SGDT", "", "LGDT", "", "SMSW", "", "LMSW", "">>[reg + 1]

\* switch(reg) of each group format: the operation selected, or "" for the
\* default that is undefined().
GroupOperation(format, reg) ==
    CASE format = "MemRegTEST_to_IDIV" ->
           <<"TEST", "", "NOT", "NEG", "MUL", "IMUL", "DIV", "IDIV">>[reg + 1]
      [] format = "MemRegROL_to_SAR" ->
           <<"ROL", "", "ROR", "RCL", "RCR", "SAL", "SHR", "SAR">>[reg + 1]
      [] format = "MemRegINC_DEC" ->
           <<"INC", "DEC", "", "", "", "", "", "">>[reg + 1]
      [] format = "MemRegINC_to_PUSH" ->
           <<"INC", "DEC", "CALLN", "CALLF", "JMPN", "JMPF", "PUSH", "">>[reg + 1]
      [] format = "MemRegADD_to_CMP" ->
           <<"ADD", "OR", "ADC", "SBB", "AND", "SUB", "XOR", "CMP">>[reg + 1]
      [] format = "MemRegADC_to_CMP" ->
           <<"ADD", "", "ADC", "SBB", "", "SUB", "", "CMP">>[reg + 1]
      [] format = "MemRegSLDT_to_VERW" ->
           <<"SLDT", "STR", "LLDT", "LTR", "VERR", "VERW", "", "">>[reg + 1]
      [] format = "MemRegSGDT_to_LMSW" ->
           <<"SGDT", "", "LGDT", "", "SMSW", "", "LMSW", "">>[reg + 1]

\* switch(modregrm_format_)
ModRegRMFormat(d, memreg, reg) ==
    LET f == d.modregrm_format_
        group == GroupOperation(f, reg)
    IN
    CASE f = "Reg_MemReg" ->
           Ok([d EXCEPT !.source_ = memreg,
                        !.destination_ = reg_table(d.operation_size_, reg)])
      [] f = "MemReg_Reg" ->
           Ok([d EXCEPT !.source_ = reg_table(d.operation_size_, reg),
                        !.destination_ = memreg])
      [] f \in {"MemRegTEST_to_IDIV", "MemRegINC_DEC", "MemRegSLDT_to_VERW",
                "MemRegSGDT_to_LMSW"} ->
           IF group = "" THEN Undef(d)
           ELSE Ok([d EXCEPT !.source_ = memreg, !.destination_ = memreg,
                             !.operation_ = group])
      [] f = "SegReg" ->
           IF (reg \div 4) % 2 = 1 THEN Undef(d)
           ELSE Ok([d EXCEPT !.source_ = memreg, !.destination_ = seg_table(reg)])
      [] f = "MemRegROL_to_SAR" ->
           IF group = "" THEN Undef(d)
           ELSE Ok([d EXCEPT !.destination_ = memreg, !.operation_ = group])
      [] f = "MemRegINC_to_PUSH" ->
           IF group = "" THEN Undef(d)
           ELSE IF reg = 3 \/ reg = 5
           THEN Ok([d EXCEPT !.destination_ = memreg, !.operation_ = group,
                             !.operand_size_ = 4, !.source_ = "Immediate"])
           ELSE Ok([d EXCEPT !.source_ = memreg, !.destination_ = memreg,
                             !.operation_ = group])
      [] f = "MemRegPOP" ->
           IF reg # 0 THEN Undef(d)
           ELSE Ok([d EXCEPT !.source_ = memreg, !.destination_ = memreg])
      [] f = "MemRegMOV" ->
           Ok([d EXCEPT !.source_ = "Immediate", !.destination_ = memreg,
                        !.operand_size_ = d.operation_size_])
      [] f = "MemRegADD_to_CMP" ->
           Ok([d EXCEPT !.destination_ = memreg,
                        !.operand_size_ = d.operation_size_,
                        !.operation_ = group])
      [] f = "MemRegADC_to_CMP" ->
           IF group = "" THEN Undef(d)
           ELSE Ok([d EXCEPT !.destination_ = memreg, !.source_ = "Immediate",
                             !.operand_size_ = 1, !.operation_ = group])

\* ------------------------------------------------------------------------
\* decode, phase by phase. A cursor s is the decoder d, the number pos of
\* bytes of the buffer read so far, and, once ret is set, the returned pair
\* (count, instr).

Cursor(d) == [d |-> d, pos |-> 0, ret |-> FALSE, count |-> 0, instr |-> InstructionT_default]

\* An undefined() that reports the prefixes collected so far.
undefined_postsPrefixes(s, d) ==
    [s EXCEPT !.d = reset_parsing(d), !.ret = TRUE, !.count = d.consumed_,
              !.instr = [InstructionT_default EXCEPT
                            !.lock = d.lock_,
                            !.segment_override = d.segment_override_,
                            !.repetition = d.repetition_]]

\* An undefined() that returns without reset_parsing().
undefined_noReset(s, d) ==
    [s EXCEPT !.d = d, !.ret = TRUE, !.count = d.consumed_,
              !.instr = InstructionT_default]

\* undefined(): return (consumed_, InstructionT()) after reset_parsing().
undefined(s, d) ==
    [s EXCEPT !.d = reset_parsing(d), !.ret = TRUE, !.count = d.consumed_,
              !.instr = InstructionT_default]

\* An `if` where the loop is: one byte per call while prefixes arrive.
InstructionPhase_once(s, buf) ==
    IF s.ret \/ s.d.phase_ # "Instruction" \/ s.pos = Len(buf) THEN s
    ELSE LET b == buf[s.pos + 1]
             d1 == [s.d EXCEPT !.instr_ = b, !.consumed_ = @ + 1]
             s1 == [s EXCEPT !.pos = @ + 1]
             r == Opcode(d1, b)
         IN IF r.undef THEN undefined(s1, r.d) ELSE [s1 EXCEPT !.d = r.d]

\* Prefixes (if present) and the opcode: the while loop.
RECURSIVE InstructionPhase(_, _)
InstructionPhase(s, buf) ==
    IF s.ret \/ s.d.phase_ # "Instruction" \/ s.pos = Len(buf) THEN s
    ELSE LET b == buf[s.pos + 1]
             d1 == [s.d EXCEPT !.instr_ = b, !.consumed_ = @ + 1]
             s1 == [s EXCEPT !.pos = @ + 1]
             r == Opcode(d1, b)
         IN IF r.undef THEN undefined(s1, r.d)
            ELSE InstructionPhase([s1 EXCEPT !.d = r.d], buf)

\* What instr_ holds once x is assigned to it: its low byte. The member's
\* declaration is not in Decoder.cpp; one byte is the width under which the
\* second byte of a 0x0f pair selects among the cases 0x00 to 0x06.
instr_t(x) == x % 256

\* Additional F page of instructions.
InstructionPageFPhase(s, buf) ==
    IF s.ret \/ s.d.phase_ # "InstructionPageF" \/ s.pos = Len(buf) THEN s
    ELSE LET b == buf[s.pos + 1]
             d1 == [s.d EXCEPT !.instr_ = instr_t(3840 + b), !.consumed_ = @ + 1]
             s1 == [s EXCEPT !.pos = @ + 1]
             r == OpcodePageF(d1)
         IN IF r.undef THEN undefined(s1, r.d) ELSE [s1 EXCEPT !.d = r.d]

\* A ModRegRM phase that awaits a scale-index-base byte after every memory
\* operand.
ModRegRMPhase_awaitsSIB(s, buf) ==
    IF s.ret \/ s.d.phase_ # "ModRegRM" \/ s.pos = Len(buf) THEN s
    ELSE LET b == buf[s.pos + 1]
             mod == b \div 64
             reg == (b \div 8) % 8
             rm == b % 8
             d1 == [s.d EXCEPT !.consumed_ = @ + 1]
             s1 == [s EXCEPT !.pos = @ + 1]
             o == ModRegRMOperand(d1, mod, rm)
             r == ModRegRMFormat(o.d, o.memreg, reg)
         IN IF o.undef THEN undefined(s1, o.d)
            ELSE IF r.undef THEN undefined(s1, r.d)
            ELSE [s1 EXCEPT !.d = [r.d EXCEPT !.phase_ =
                    IF mod # 3 THEN "ScaleIndexBase"
                    ELSE IF r.d.displacement_size_ + r.d.operand_size_ # 0
                    THEN "DisplacementOrOperand" ELSE "ReadyToPost"]]

\* A ModRegRM phase whose undefined() in a group does not return: the
\* instruction goes on as Undefined to its displacement and immediate.
ModRegRMPhase_rejectsLate(s, buf) ==
    IF s.ret \/ s.d.phase_ # "ModRegRM" \/ s.pos = Len(buf) THEN s
    ELSE LET b == buf[s.pos + 1]
             mod == b \div 64
             reg == (b \div 8) % 8
             rm == b % 8
             d1 == [s.d EXCEPT !.consumed_ = @ + 1]
             s1 == [s EXCEPT !.pos = @ + 1]
             o == ModRegRMOperand(d1, mod, rm)
             r == ModRegRMFormat(o.d, o.memreg, reg)
             d2 == IF r.undef THEN [r.d EXCEPT !.operation_ = "Undefined"] ELSE r.d
         IN IF o.undef THEN undefined(s1, o.d)
            ELSE [s1 EXCEPT !.d = [d2 EXCEPT !.phase_ =
                    IF d2.displacement_size_ + d2.operand_size_ # 0
                    THEN "DisplacementOrOperand" ELSE "ReadyToPost"]]

\* ModRegRM byte, if any.
\* A ModRegRM byte after which trailing bytes are always awaited.
ModRegRMPhase_alwaysAwaits(s, buf) ==
    IF s.ret \/ s.d.phase_ # "ModRegRM" \/ s.pos = Len(buf) THEN s
    ELSE LET b == buf[s.pos + 1]
             mod == b \div 64
             reg == (b \div 8) % 8
             rm == b % 8
             d1 == [s.d EXCEPT !.consumed_ = @ + 1]
             s1 == [s EXCEPT !.pos = @ + 1]
             o == ModRegRMOperand(d1, mod, rm)
             r == ModRegRMFormat(o.d, o.memreg, reg)
         IN IF o.undef THEN undefined(s1, o.d)
            ELSE IF r.undef THEN undefined(s1, r.d)
            ELSE [s1 EXCEPT !.d = [r.d EXCEPT !.phase_ = "DisplacementOrOperand"]]

ModRegRMPhase(s, buf) ==
    IF s.ret \/ s.d.phase_ # "ModRegRM" \/ s.pos = Len(buf) THEN s
    ELSE LET b == buf[s.pos + 1]
             mod == b \div 64
             reg == (b \div 8) % 8
             rm == b % 8
             d1 == [s.d EXCEPT !.consumed_ = @ + 1]
             s1 == [s EXCEPT !.pos = @ + 1]
             o == ModRegRMOperand(d1, mod, rm)
             r == ModRegRMFormat(o.d, o.memreg, reg)
         IN IF o.undef THEN undefined(s1, o.d)
            ELSE IF r.undef THEN undefined(s1, r.d)
            ELSE [s1 EXCEPT !.d = [r.d EXCEPT !.phase_ =
                    IF r.d.displacement_size_ + r.d.operand_size_ # 0
                    THEN "DisplacementOrOperand" ELSE "ReadyToPost"]]

\* ScaleIndexBase: a phase no opcode selects.
ScaleIndexBasePhase(s, buf) ==
    IF s.ret \/ s.d.phase_ # "ScaleIndexBase" \/ s.pos = Len(buf) THEN s
    ELSE [s EXCEPT !.pos = @ + 1,
                   !.d = [s.d EXCEPT !.sib_ = buf[s.pos + 1], !.consumed_ = @ + 1]]

\* The for loop shifting bytes_to_consume bytes into inward_data_.
RECURSIVE ShiftBytes(_, _, _, _)
ShiftBytes(w, buf, pos, n) ==
    IF n = 0 THEN w ELSE ShiftBytes(ShiftIn(w, buf[pos + 1]), buf, pos + 1, n - 1)

\* An extraction that leaves the high byte of a one-byte operand clear.
ExtractOperands_zeroExtends(d) ==
    LET w0 == d.inward_data_
        operand == CASE d.operand_size_ = 1 -> Top8(w0)
                     [] d.operand_size_ \in {2, 4} -> Top16(w0)
                     [] OTHER -> 0
        w1 == CASE d.operand_size_ = 1 -> ShiftLeft8(w0)
                [] d.operand_size_ \in {2, 4} -> ShiftLeft16(w0)
                [] OTHER -> w0
        dsize == IF d.operand_size_ = 4 THEN 2 ELSE d.displacement_size_
        displacement == CASE dsize = 1 -> Int8(Top8(w1))
                          [] dsize = 2 -> Int16(Top16(w1))
                          [] OTHER -> 0
    IN [d EXCEPT !.phase_ = "ReadyToPost", !.operand_ = operand,
                 !.inward_data_ = w1, !.displacement_size_ = dsize,
                 !.displacement_ = displacement]

\* An extraction that sign-extends the port number of IN and OUT as it
\* does every other one-byte operand of a word operation.
ExtractOperands_extendsPorts(d) ==
    LET w0 == d.inward_data_
        byte == Top8(w0)
        extend == d.operation_size_ = 2
        operand == CASE d.operand_size_ = 1 ->
                          IF extend /\ byte >= 128 THEN byte + 65280 ELSE byte
                     [] d.operand_size_ \in {2, 4} -> Top16(w0)
                     [] OTHER -> 0
        w1 == CASE d.operand_size_ = 1 -> ShiftLeft8(w0)
                [] d.operand_size_ \in {2, 4} -> ShiftLeft16(w0)
                [] OTHER -> w0
        dsize == IF d.operand_size_ = 4 THEN 2 ELSE d.displacement_size_
        displacement == CASE dsize = 1 -> Int8(Top8(w1))
                          [] dsize = 2 -> Int16(Top16(w1))
                          [] OTHER -> 0
    IN [d EXCEPT !.phase_ = "ReadyToPost", !.operand_ = operand,
                 !.inward_data_ = w1, !.displacement_size_ = dsize,
                 !.displacement_ = displacement]

\* An extraction that takes the first two bytes of a four-byte operand as
\* the operand and the last two as the displacement.
ExtractOperands_segmentFirst(d) ==
    LET w0 == d.inward_data_
        byte == Top8(w0)
        extend == d.operation_size_ = 2 /\ d.operation_ # "IN" /\ d.operation_ # "OUT"
        operand == CASE d.operand_size_ = 1 ->
                          IF extend /\ byte >= 128 THEN byte + 65280 ELSE byte
                     [] d.operand_size_ = 2 -> Top16(w0)
                     [] d.operand_size_ = 4 -> Top16(ShiftLeft16(w0))
                     [] OTHER -> 0
        w1 == CASE d.operand_size_ = 1 -> ShiftLeft8(w0)
                [] d.operand_size_ \in {2, 4} -> ShiftLeft16(w0)
                [] OTHER -> w0
        dsize == IF d.operand_size_ = 4 THEN 2 ELSE d.displacement_size_
        displacement == CASE dsize = 1 -> Int8(Top8(w1))
                          [] dsize = 2 -> Int16(Top16(IF d.operand_size_ = 4 THEN w0 ELSE w1))
                          [] OTHER -> 0
    IN [d EXCEPT !.phase_ = "ReadyToPost", !.operand_ = operand,
                 !.inward_data_ = w1, !.displacement_size_ = dsize,
                 !.displacement_ = displacement]

\* switch(operand_size_) then switch(displacement_size_), once every
\* trailing byte has arrived.
ExtractOperands(d) ==
    LET w0 == d.inward_data_
        byte == Top8(w0)
        extend == d.operation_size_ = 2 /\ d.operation_ # "IN" /\ d.operation_ # "OUT"
        operand == CASE d.operand_size_ = 1 ->
                          IF extend /\ byte >= 128 THEN byte + 65280 ELSE byte
                     [] d.operand_size_ \in {2, 4} -> Top16(w0)
                     [] OTHER -> 0
        w1 == CASE d.operand_size_ = 1 -> ShiftLeft8(w0)
                [] d.operand_size_ \in {2, 4} -> ShiftLeft16(w0)
                [] OTHER -> w0
        dsize == IF d.operand_size_ = 4 THEN 2 ELSE d.displacement_size_
        displacement == CASE dsize = 1 -> Int8(Top8(w1))
                          [] dsize = 2 -> Int16(Top16(w1))
                          [] OTHER -> 0
    IN [d EXCEPT !.phase_ = "ReadyToPost", !.operand_ = operand,
                 !.inward_data_ = w1, !.displacement_size_ = dsize,
                 !.displacement_ = displacement]

\* std::min
\* A minimum that is always the bytes available.
Min_available(a, b) == a

Min(a, b) == IF a < b THEN a ELSE b

\* A decoder whose byte accumulator starts again from nothing on each call.
Accumulate_restarts(d, buf, pos, n) ==
    [d EXCEPT !.inward_data_ = ShiftBytes(<<0, 0, 0, 0, 0, 0, 0, 0>>, buf, pos, n),
              !.consumed_ = @ + n,
              !.operand_bytes_ = @ + n]

\* The for loop and the two counters: n bytes of the buffer, from pos on,
\* join the trailing bytes collected so far.
Accumulate(d, buf, pos, n) ==
    [d EXCEPT !.inward_data_ = ShiftBytes(@, buf, pos, n),
              !.consumed_ = @ + n,
              !.operand_bytes_ = @ + n]

\* A count that forgets the bytes this call has just taken.
Shortfall_stale(outstanding_bytes, bytes_to_consume) == -outstanding_bytes

\* A genuine measure of further bytes required.
Shortfall(outstanding_bytes, bytes_to_consume) ==
    -(outstanding_bytes - bytes_to_consume)

\* An operand block that is entered with no byte left in the buffer.
DisplacementOrOperandPhase_unguarded(s, buf) ==
    IF s.ret \/ s.d.phase_ # "DisplacementOrOperand" THEN s
    ELSE LET required_bytes == s.d.displacement_size_ + s.d.operand_size_
             outstanding_bytes == required_bytes - s.d.operand_bytes_
             bytes_to_consume == Min(Len(buf) - s.pos, outstanding_bytes)
             d1 == Accumulate(s.d, buf, s.pos, bytes_to_consume)
             s1 == [s EXCEPT !.pos = @ + bytes_to_consume]
         IN IF bytes_to_consume = outstanding_bytes
            THEN [s1 EXCEPT !.d = ExtractOperands(d1)]
            ELSE [s1 EXCEPT !.d = d1, !.ret = TRUE,
                            !.count = Shortfall(outstanding_bytes, bytes_to_consume),
                            !.instr = InstructionT_default]

\* Displacement and operand.
DisplacementOrOperandPhase(s, buf) ==
    IF s.ret \/ s.d.phase_ # "DisplacementOrOperand" \/ s.pos = Len(buf) THEN s
    ELSE LET required_bytes == s.d.displacement_size_ + s.d.operand_size_
             outstanding_bytes == required_bytes - s.d.operand_bytes_
             bytes_to_consume == Min(Len(buf) - s.pos, outstanding_bytes)
             d1 == Accumulate(s.d, buf, s.pos, bytes_to_consume)
             s1 == [s EXCEPT !.pos = @ + bytes_to_consume]
         IN IF bytes_to_consume = outstanding_bytes
            THEN [s1 EXCEPT !.d = ExtractOperands(d1)]
            ELSE [s1 EXCEPT !.d = d1, !.ret = TRUE,
                            !.count = Shortfall(outstanding_bytes, bytes_to_consume),
                            !.instr = InstructionT_default]

\* The fields Completion packages into the instruction it reports.
Posted(d) ==
    InstructionT(d.operation_, d.source_, d.destination_, d.sib_, d.lock_,
                 d.address_size_, d.segment_override_, d.repetition_,
                 d.operation_size_, d.displacement_, d.operand_)

\* A completion that reports only the bytes of the returning call.
Completion_countsThisCall(s) ==
    IF s.ret \/ s.d.phase_ # "ReadyToPost" THEN s
    ELSE [s EXCEPT !.d = reset_parsing(s.d), !.ret = TRUE, !.count = s.pos,
                   !.instr = Posted(s.d)]

\* A completion after which the operation size survives.
Completion_keepsSize(s) ==
    IF s.ret \/ s.d.phase_ # "ReadyToPost" THEN s
    ELSE [s EXCEPT !.d = [reset_parsing(s.d) EXCEPT
                            !.operation_size_ = s.d.operation_size_],
                   !.ret = TRUE, !.count = s.d.consumed_, !.instr = Posted(s.d)]

\* A completion after which the prefixes survive.
Completion_keepsPrefixes(s) ==
    IF s.ret \/ s.d.phase_ # "ReadyToPost" THEN s
    ELSE [s EXCEPT !.d = [reset_parsing(s.d) EXCEPT
                            !.lock_ = s.d.lock_,
                            !.segment_override_ = s.d.segment_override_,
                            !.repetition_ = s.d.repetition_],
                   !.ret = TRUE, !.count = s.d.consumed_, !.instr = Posted(s.d)]

\* Check for completion.
Completion(s) ==
    IF s.ret \/ s.d.phase_ # "ReadyToPost" THEN s
    ELSE [s EXCEPT !.d = reset_parsing(s.d), !.ret = TRUE,
                   !.count = s.d.consumed_, !.instr = Posted(s.d)]

\* A return of 0 that starts the instruction over.
NotDoneYet_discards(s) ==
    IF s.ret THEN s
    ELSE [s EXCEPT !.d = reset_parsing(s.d), !.ret = TRUE, !.count = 0,
                   !.instr = InstructionT_default]

\* i.e. not done yet.
NotDoneYet(s) ==
    IF s.ret THEN s
    ELSE [s EXCEPT !.ret = TRUE, !.count = 0, !.instr = InstructionT_default]

\* std::pair<int, InstructionT> Decoder<model>::decode(source, length)
decode(d, buf) ==
    NotDoneYet(Completion(DisplacementOrOperandPhase(ScaleIndexBasePhase(
        ModRegRMPhase(InstructionPageFPhase(InstructionPhase(Cursor(d), buf),
        buf), buf), buf), buf)))

\* ------------------------------------------------------------------------
\* The caller.

\* The buffers a call may be given.
Buffers == UNION {[1..n -> bytes] : n \in 0..MaxChunk}

\* The bytes bs given to decoder r one byte per call: the decoder after the
\* last byte and the positive results on the way.
RECURSIVE ByteByByte(_, _, _)
ByteByByte(r, bs, out) ==
    IF bs = <<>> THEN [d |-> r, out |-> out]
    ELSE LET one == decode(r, <<Head(bs)>>)
         IN ByteByByte(one.d, Tail(bs),
                IF one.count > 0
                THEN Append(out, [count |-> one.count, instr |-> one.instr])
                ELSE out)

\* The bytes that make a decoder wait for more opcode bytes.
PrefixOpcodes == {38, 46, 54, 62, 240, 242, 243}

\* The number of prefix bytes bs starts with.
RECURSIVE LeadingPrefixes(_)
LeadingPrefixes(bs) ==
    IF bs = <<>> \/ Head(bs) \notin PrefixOpcodes THEN 0
    ELSE 1 + LeadingPrefixes(Tail(bs))

\* Whether the instruction made of the bytes bs carried prefixes.
Summary(bs) == IF LeadingPrefixes(bs) > 0 THEN "prefixed" ELSE "plain"

\* -1, 0 or 1 as n is negative, zero or positive.
Sign(n) == IF n < 0 THEN -1 ELSE IF n > 0 THEN 1 ELSE 0

\* Two decoders newly constructed: the members of each object, each
\* instance as its own calls alone would leave it, the pair (count,
\* instruction) the last call on each returned and the pair it would have
\* returned had the instance been driven alone.
InitialPair ==
    [object   |-> <<InitialDecoder, InitialDecoder>>,
     alone    |-> <<InitialDecoder, InitialDecoder>>,
     returned |-> <<[count |-> 0, instr |-> InstructionT_default],
                    [count |-> 0, instr |-> InstructionT_default]>>,
     expected |-> <<[count |-> 0, instr |-> InstructionT_default],
                    [count |-> 0, instr |-> InstructionT_default]>>]

\* A decoder of one of the configurations C, newly constructed.
Constructed(C) ==
    /\ \E c \in C : model = c[1] /\ bytes = c[2]
    /\ dec = InitialDecoder
    /\ result = [count |-> 0, instr |-> InstructionT_default, used |-> 0, len |-> 0]
    /\ fed = <<>>
    /\ prev = "none"
    /\ start = InitialDecoder
    /\ before = 0
    /\ pair = InitialPair

Init == Constructed(Configurations)

\* One call decode(buf) on the long-lived decoder.
Decode(buf) ==
    \E r \in {decode(dec, buf)} :
    \E stream \in {(IF result.count > 0 THEN <<>> ELSE fed) \o SubSeq(buf, 1, r.pos)} :
       /\ LeadingPrefixes(stream) <= MaxPrefix
       /\ dec' = r.d
       /\ result' = [count |-> r.count, instr |-> r.instr, used |-> r.pos,
                     len |-> Len(buf)]
       /\ fed' = stream
       /\ prev' = IF result.count > 0 THEN Summary(fed) ELSE prev
       /\ start' = IF result.count > 0 THEN dec ELSE start
       /\ before' = Sign(result.count)
       /\ UNCHANGED <<model, bytes, pair>>

Next == \E buf \in Buffers : Decode(buf)

Spec == Init /\ [][Next]_vars

\* The same caller, of decoders given streams that hold the escape 0x0f.
InitEscape == Constructed(ConfigurationsEscape)

SpecEscape == InitEscape /\ [][Next]_vars

\* Members that every instance keeps in one place, as statics.
this_static(i) == 1

\* The object whose members a call on instance i reads and assigns: decode
\* names members only, and its tables are constexpr locals.
this(i) == i

\* One call decode(buf) on instance i of the pair.
DecodeOn(i, buf) ==
    \E r \in {decode(pair.object[this(i)], buf)} :
    \E a \in {decode(pair.alone[i], buf)} :
       /\ r.d.phase_ = "Instruction" => r.d.consumed_ <= MaxPrefix
       /\ pair' = [object   |-> [pair.object EXCEPT ![this(i)] = r.d],
                   alone    |-> [pair.alone EXCEPT ![i] = a.d],
                   returned |-> [pair.returned EXCEPT
                                   ![i] = [count |-> r.count, instr |-> r.instr]],
                   expected |-> [pair.expected EXCEPT
                                   ![i] = [count |-> a.count, instr |-> a.instr]]]
       /\ UNCHANGED <<model, bytes, dec, result, fed, prev, start, before>>

\* Calls on two decoders in any order, each with buffers of its own.
InitPair == Constructed(ConfigurationsPair)

NextPair == \E i \in {1, 2} : \E buf \in Buffers : DecodeOn(i, buf)

SpecPair == InitPair /\ [][NextPair]_vars

\* A caller that gives a new decoder one byte per call, any byte at all,
\* until a byte other than a prefix has been dispatched.
Lead(b) == dec.phase_ = "Instruction" /\ result.count <= 0 /\ Decode(<<b>>)

InitDispatch == Constructed(ConfigurationsDispatch)

NextDispatch == \E b \in bytes : Lead(b)

SpecDispatch == InitDispatch /\ [][NextDispatch]_vars

\* The same caller, of decoders given streams that hold the opcodes the
\* 80186 and the 80286 added.
InitGated == Constructed(ConfigurationsGated)

SpecGated == InitGated /\ [][Next]_vars

\* The same caller, of decoders given streams that hold one-byte immediates.
InitImmediate == Constructed(ConfigurationsImmediate)

SpecImmediate == InitImmediate /\ [][Next]_vars

\* The same caller, of decoders given streams that hold ModRegRM bytes of
\* every mod.
InitAddress == Constructed(ConfigurationsAddress)

SpecAddress == InitAddress /\ [][Next]_vars

\* The same caller, of decoders given streams that hold displacements and
\* immediates.
InitTrailing == Constructed(ConfigurationsTrailing)

SpecTrailing == InitTrailing /\ [][Next]_vars

\* ------------------------------------------------------------------------
\* Vocabulary of the properties.

\* The bytes of bs after its prefixes.
StripPrefixes(bs) == SubSeq(bs, LeadingPrefixes(bs) + 1, Len(bs))

\* The last of the first n bytes of bs that is in S, or -1.
RECURSIVE LastOf(_, _, _)
LastOf(bs, S, n) ==
    IF n = 0 THEN -1
    ELSE IF bs[n] \in S THEN bs[n] ELSE LastOf(bs, S, n - 1)

\* What the prefixes in front of bs ask for.
PrefixLock(bs) == LastOf(bs, {240}, LeadingPrefixes(bs)) = 240
PrefixRepetition(bs) ==
    LET b == LastOf(bs, {242, 243}, LeadingPrefixes(bs))
    IN IF b = 242 THEN "RepNE" ELSE IF b = 243 THEN "RepE" ELSE "None"
PrefixSegment(bs) ==
    LET b == LastOf(bs, {38, 46, 54, 62}, LeadingPrefixes(bs))
    IN CASE b = 38 -> "ES" [] b = 46 -> "CS" [] b = 54 -> "SS" [] b = 62 -> "DS"
         [] OTHER -> "None"

\* Trailing bytes the decoder still waits for.
Outstanding(d) == d.displacement_size_ + d.operand_size_ - d.operand_bytes_

\* Leading bytes with no entry in the opcode switch.
UnassignedOpcodes == (100..107) \cup {140, 192, 193, 214, 241}

\* Leading bytes whose entry the model m does not have.
UnavailableOpcodes(m) ==
    (IF m < i80186 THEN {96, 97, 98, 108, 109, 110, 111, 200, 201} ELSE {})
        \cup (IF m < i80286 THEN {99, 15} ELSE {})

\* ModRegRM bytes b with no meaning after the opcode op.
InvalidModRegRM(op, b) ==
    LET mod == b \div 64
        reg == (b \div 8) % 8
    IN \/ op \in {196, 197} /\ mod = 3
       \/ op \in {246, 247, 208, 209, 210, 211} /\ reg = 1
       \/ op = 254 /\ reg >= 2
       \/ op = 255 /\ reg = 7
       \/ op = 142 /\ reg >= 4
       \/ op = 143 /\ reg # 0
       \/ op \in {130, 131} /\ reg \in {1, 4, 6}

\* bs is prefixes, then an opcode that is unassigned or unavailable, or an
\* opcode and a ModRegRM byte that is invalid for it.
Offends(bs) ==
    LET r == StripPrefixes(bs)
    IN \/ Len(r) = 1 /\ r[1] \in UnassignedOpcodes \cup UnavailableOpcodes(model)
       \/ Len(r) = 2 /\ InvalidModRegRM(r[1], r[2])

\* The decoder as it was before the last of the bytes bs of an instruction.
BeforeLast(bs) == decode(start, SubSeq(bs, 1, Len(bs) - 1)).d

\* The bytes bs end an instruction of operation size 2 whose last byte is
\* its one-byte immediate.
ByteFeedsWord(bs) ==
    /\ bs # <<>>
    /\ BeforeLast(bs).phase_ = "DisplacementOrOperand"
    /\ BeforeLast(bs).operand_size_ = 1
    /\ BeforeLast(bs).operation_size_ = 2

\* The 16-bit value with the low byte b and the high byte 0xff when bit 7
\* of b is set, 0x00 otherwise.
SignExtended(b) == IF (b \div 128) % 2 = 1 THEN 255 * 256 + b ELSE b

\* The place of phase p in the order in which decode's blocks come.
PhaseOrder(p) ==
    CASE p = "Instruction"           -> 0
      [] p = "InstructionPageF"      -> 1
      [] p = "ModRegRM"              -> 2
      [] p = "ScaleIndexBase"        -> 3
      [] p = "DisplacementOrOperand" -> 4
      [] p = "ReadyToPost"           -> 5

\* The cursor of a call decode(buf) on decoder d before its first block and
\* after each block in turn.
Blocks(d, buf) ==
    LET s1 == InstructionPhase(Cursor(d), buf)
        s2 == InstructionPageFPhase(s1, buf)
        s3 == ModRegRMPhase(s2, buf)
        s4 == ScaleIndexBasePhase(s3, buf)
        s5 == DisplacementOrOperandPhase(s4, buf)
    IN <<Cursor(d), s1, s2, s3, s4, s5, Completion(s5)>>

\* From cursor a to cursor b the phase stays or moves on, or b is a return
\* of a positive count with the decoder reset.
Forward(a, b) ==
    \/ PhaseOrder(b.d.phase_) >= PhaseOrder(a.d.phase_)
    \/ b.ret /\ b.count > 0 /\ b.d.phase_ = "Instruction"

\* What the opcode switch can do with a leading byte, as a call given
\* that byte alone shows it: 1 prefix (stay in the opcode phase), 2 escape
\* to the extended-opcode phase, 3 go to the ModRegRM phase, 4 go to the
\* operand-bytes phase, 5 complete, 6 reject.
DispatchAction(a) ==
    CASE a = 1 -> result.count = 0 /\ dec.phase_ = "Instruction"
                    /\ dec.consumed_ = Len(fed)
      [] a = 2 -> result.count = 0 /\ dec.phase_ = "InstructionPageF"
      [] a = 3 -> result.count = 0 /\ dec.phase_ = "ModRegRM"
      [] a = 4 -> result.count = 0 /\ dec.phase_ = "DisplacementOrOperand"
                    /\ Outstanding(dec) > 0
      [] a = 5 -> result.count = Len(fed) /\ dec.phase_ = "Instruction"
                    /\ result.instr.operation # "Undefined"
      [] a = 6 -> result.count = Len(fed) /\ dec.phase_ = "Instruction"
                    /\ result.instr = InstructionT_default

\* What the second byte b after the escape 0x0f selects, p prefixes having
\* come first, told of the outcome o (count, instruction and decoder) of
\* the call that took it: a group or LAR or LSL awaiting a ModRegRM byte,
\* CLTS, LOADALL on the 80286, and otherwise Undefined.
PageFAction(o, b, p) ==
    CASE b \in {0, 1} ->
           /\ o.count = 0
           /\ o.d.phase_ = "ModRegRM"
           /\ o.d.modregrm_format_ =
                 IF b = 0 THEN "MemRegSLDT_to_VERW" ELSE "MemRegSGDT_to_LMSW"
      [] b \in {2, 3} ->
           /\ o.count = 0
           /\ o.d.phase_ = "ModRegRM"
           /\ o.d.modregrm_format_ = "Reg_MemReg"
           /\ o.d.operation_ = IF b = 2 THEN "LAR" ELSE "LSL"
      [] b = 6 ->
           /\ o.count = p + 2
           /\ o.instr.operation = "CLTS"
      [] b = 5 /\ model = i80286 ->
           /\ o.count = p + 2
           /\ o.instr.operation = "LOADALL"
      [] OTHER ->
           /\ o.count = p + 2
           /\ o.instr = InstructionT_default

\* Immediate bytes that follow the ModRegRM byte and the displacement of
\* the opcode op.
ImmediateBytes(op) ==
    CASE op \in {128, 130, 131, 198} -> 1
      [] op \in {129, 199} -> 2
      [] OTHER -> 0

\* n bytes of no account.
Padding(n) == [i \in 1..n |-> 0]

\* What a ModRegRM byte b of mod 0, 1 or 2 after the opcode op does, p
\* prefixes having come first, told of the outcome o of the call that took
\* the two bytes alone and the outcome f of the call that took them and
\* the trailing bytes: the pair of rm, as many displacement bytes as mod,
\* and all the bytes counted.
IndirectOperand(o, f, op, b, p) ==
    LET mod == b \div 64
        rm == b % 8
        n == mod + ImmediateBytes(op)
    IN /\ IF n = 0 THEN o = f
          ELSE /\ o.count = 0
               /\ o.d.phase_ = "DisplacementOrOperand"
               /\ o.d.displacement_size_ = mod
               /\ Outstanding(o.d) = n
               /\ o.d.sib_ = rm_table(rm)
               /\ "Indirect" \in {o.d.source_, o.d.destination_}
       /\ f.count = p + 2 + n
       /\ f.instr.sib = rm_table(rm)
       /\ "Indirect" \in {f.instr.source, f.instr.destination}

\* The decoder awaits an opcode, as constructed or after prefixes given
\* one byte a call. Every decoder that awaits an opcode is the decoder of
\* such a state: a call can always be given less, and a call that reports
\* an instruction leaves the decoder as constructed.
AwaitsOpcode == dec.phase_ = "Instruction" /\ result.count = 0 /\ result.len <= 1

\* What a ModRegRM byte b after LES or LDS (opcode op) does, p prefixes
\* having come first, told of the outcome o of the call that took the two
\* bytes: mod 3 is rejected with the count of the bytes so far, and any
\* other mod is taken, the instruction reported or its displacement
\* awaited.
FarLoad(o, op, b, p) ==
    LET mod == b \div 64
        name == IF op = 196 THEN "LES" ELSE "LDS"
    IN CASE mod = 3 ->
              /\ o.count = p + 2
              /\ o.instr = InstructionT_default
              /\ o.d.phase_ = "Instruction"
         [] mod = 0 ->
              /\ o.count = p + 2
              /\ o.instr.operation = name
              /\ o.instr.source = "Indirect"
         [] OTHER ->
              /\ o.count = 0
              /\ o.d.phase_ = "DisplacementOrOperand"
              /\ o.d.operation_ = name
              /\ Outstanding(o.d) = mod

\* The operation that reg selects after 0xf6 and 0xf7.
UnaryOperation(reg) ==
    CASE reg = 0 -> "TEST" [] reg = 2 -> "NOT" [] reg = 3 -> "NEG"
      [] reg = 4 -> "MUL" [] reg = 5 -> "IMUL" [] reg = 6 -> "DIV"
      [] reg = 7 -> "IDIV" [] OTHER -> "Undefined"

\* What a ModRegRM byte b after 0xf6 or 0xf7 (opcode op) does, p prefixes
\* having come first, told of the outcome f of the call that took the two
\* bytes and the displacement: reg 1 is rejected at the ModRegRM byte, and
\* any other reg selects the operation, with the ModRegRM operand as both
\* source and destination.
UnaryGroup(f, op, b, p) ==
    LET mod == b \div 64
        reg == (b \div 8) % 8
        rm == b % 8
        memreg == IF mod = 3 THEN reg_table(op - 245, rm) ELSE "Indirect"
    IN IF reg = 1
       THEN /\ f.count = p + 2
            /\ f.instr = InstructionT_default
       ELSE /\ f.count = p + 2 + (IF mod = 3 THEN 0 ELSE mod)
            /\ f.instr.operation = UnaryOperation(reg)
            /\ f.instr.source = memreg
            /\ f.instr.destination = memreg
            /\ f.instr.operation_size = op - 245

\* What a ModRegRM byte b after 0x8e does, p prefixes having come first,
\* told of the outcome f of the call that took the two bytes and the
\* displacement: reg 4-7 is rejected at the ModRegRM byte, and reg 0-3 is
\* a MOV from the ModRegRM operand to ES, CS, SS or DS.
SegmentMove(f, b, p) ==
    LET mod == b \div 64
        reg == (b \div 8) % 8
        rm == b % 8
    IN IF reg >= 4
       THEN /\ f.count = p + 2
            /\ f.instr = InstructionT_default
       ELSE /\ f.count = p + 2 + (IF mod = 3 THEN 0 ELSE mod)
            /\ f.instr.operation = "MOV"
            /\ f.instr.destination =
                  (CASE reg = 0 -> "ES" [] reg = 1 -> "CS" [] reg = 2 -> "SS"
                     [] reg = 3 -> "DS")
            /\ f.instr.source =
                  IF mod = 3 THEN reg_table(2, rm) ELSE "Indirect"

\* The opcodes whose operation the reg field of the ModRegRM byte selects,
\* as the bytes that lead to the ModRegRM byte; the last two are of the
\* 80286.
GroupOpcodes ==
    {<<128>>, <<129>>, <<130>>, <<131>>, <<143>>, <<208>>, <<209>>, <<210>>,
     <<211>>, <<246>>, <<247>>, <<254>>, <<255>>, <<15, 0>>, <<15, 1>>}

\* The reg values to which the group g assigns no operation.
UnassignedReg(g) ==
    CASE g \in {<<130>>, <<131>>} -> {1, 4, 6}
      [] g = <<143>> -> 1..7
      [] g \in {<<208>>, <<209>>, <<210>>, <<211>>, <<246>>, <<247>>} -> {1}
      [] g = <<254>> -> 2..7
      [] g = <<255>> -> {7}
      [] g = <<15, 0>> -> {6, 7}
      [] g = <<15, 1>> -> {1, 3, 5, 7}
      [] OTHER -> {}

\* The outcome f of a call given the bytes of a group, a ModRegRM byte and
\* more bytes is a rejection at the ModRegRM byte, p prefixes having come
\* first: Undefined, the bytes through the ModRegRM byte counted and read,
\* and the decoder at the start of an instruction.
RejectedAt(f, g, p) ==
    /\ f.count = p + Len(g) + 1
    /\ f.pos = Len(g) + 1
    /\ f.instr = InstructionT_default
    /\ f.d.phase_ = "Instruction"
    /\ f.d.consumed_ = 0
    /\ Outstanding(f.d) = 0

\* What the byte b after IN or OUT with a port number (opcode op, 0xe4 to
\* 0xe7) gives, p prefixes having come first, told of the outcome f of the
\* call that took the two bytes: the port b as the operand, bit 7 or not.
PortNumber(f, op, b, p) ==
    /\ f.count = p + 2
    /\ f.instr.operation = (IF op \in {228, 229} THEN "IN" ELSE "OUT")
    /\ f.instr.operation_size = (IF op \in {228, 230} THEN 1 ELSE 2)
    /\ f.instr.operand = b
    /\ "DirectAddress" \in {f.instr.source, f.instr.destination}
    /\ "eAX" \in {f.instr.source, f.instr.destination}

\* The signed value of the byte b and of the 16-bit value v.
Signed8(b) == IF b >= 128 THEN b - 256 ELSE b
Signed16(v) == IF v >= 32768 THEN v - 65536 ELSE v

\* Byte values at and next to the limits of the signed range.
Limits == {0, 127, 128, 255}

\* What the four bytes t after far CALL or far JMP (opcode op) give, p
\* prefixes having come first, told of the outcome f of the call that took
\* the last of them: the first two as the displacement, signed, and the
\* last two as the operand, each low byte first.
FarPointer(f, op, t, p) ==
    /\ f.count = p + 5
    /\ f.instr.operation = (IF op = 154 THEN "CALLF" ELSE "JMPF")
    /\ f.instr.displacement = Signed16(t[1] + 256 * t[2])
    /\ f.instr.operand = t[3] + 256 * t[4]

\* The value of the bytes bs, the first the least significant.
RECURSIVE LittleEndian(_)
LittleEndian(bs) == IF bs = <<>> THEN 0 ELSE Head(bs) + 256 * LittleEndian(Tail(bs))

\* 256 to the n.
RECURSIVE Radix(_)
Radix(n) == IF n = 0 THEN 1 ELSE 256 * Radix(n - 1)

\* The instruction x holds the trailing bytes t of d displacement bytes
\* and then i immediate bytes: the displacement's d bytes are the first d
\* of t and the operand's i bytes the next i, each low byte first.
TrailingOrder(x, t, d, i) ==
    /\ x.displacement % Radix(d) = LittleEndian(SubSeq(t, 1, d))
    /\ x.operand % Radix(i) = LittleEndian(SubSeq(t, d + 1, d + i))

\* The instruction reported when the bytes s are given to decoder d0 in
\* two calls, the first k of them in the first call.
InTwoCalls(d0, s, k) ==
    LET a == decode(d0, SubSeq(s, 1, k))
    IN IF a.count > 0 THEN a.instr
       ELSE decode(a.d, SubSeq(s, k + 1, Len(s))).instr

\* The opcodes of the jumps with a one-byte displacement.
ShortJumps == (112..127) \cup (224..227) \cup {235}

\* The buffers of one or two bytes that can lie behind an instruction.
Rests == UNION {[1..n -> bytes] : n \in 1..2}

\* The outcomes a and b are the same result from the same decoder.
SameOutcome(a, b) == a.count = b.count /\ a.instr = b.instr /\ a.d = b.d /\ a.pos = b.pos

\* The registers by number, at word and at byte width, as Source names
\* them: eAX to eBX stand for AX to BX and for AL to BL.
WordRegister(n) ==
    CASE n = 0 -> "eAX" [] n = 1 -> "eCX" [] n = 2 -> "eDX" [] n = 3 -> "eBX"
      [] n = 4 -> "eSP" [] n = 5 -> "eBP" [] n = 6 -> "eSI" [] n = 7 -> "eDI"
ByteRegister(n) ==
    CASE n = 0 -> "eAX" [] n = 1 -> "eCX" [] n = 2 -> "eDX" [] n = 3 -> "eBX"
      [] n = 4 -> "AH" [] n = 5 -> "CH" [] n = 6 -> "DH" [] n = 7 -> "BH"

\* What the opcode op of 0x40 to 0x5f gives, p prefixes having come first,
\* told of the outcome f of the call that took it: INC, DEC, PUSH or POP
\* by the block of eight, of the word register numbered by the low three
\* bits, complete with that one byte.
RegisterBlock(f, op, p) ==
    /\ f.count = p + 1
    /\ f.pos = 1
    /\ f.instr.operation =
          (CASE op < 72 -> "INC" [] op < 80 -> "DEC" [] op < 88 -> "PUSH"
             [] OTHER -> "POP")
    /\ f.instr.operation_size = 2
    /\ f.instr.source = WordRegister(op % 8)
    /\ f.instr.destination = WordRegister(op % 8)

\* The register numbered n at the width size.
Register(size, n) == IF size = 1 THEN ByteRegister(n) ELSE WordRegister(n)

\* The operation of the arithmetic and logic family at base B.
FamilyOperation(B) ==
    CASE B = 0 -> "ADD" [] B = 8 -> "OR" [] B = 16 -> "ADC" [] B = 24 -> "SBB"
      [] B = 32 -> "AND" [] B = 40 -> "SUB" [] B = 48 -> "XOR" [] B = 56 -> "CMP"

\* What the opcode B + o, o in 0..3, and a ModRegRM byte b give, p prefixes
\* having come first, told of the outcome a of the call that took the
\* opcode alone and the outcome f of the call that took both and the
\* displacement: byte size for even and word size for odd o, the ModRegRM
\* operand as destination and the reg register as source for o < 2, and
\* the other way for o >= 2.
FamilyModRegRM(a, f, B, o, b, p) ==
    LET size == 1 + (o % 2)
        mod == b \div 64
        memreg == IF mod = 3 THEN Register(size, b % 8) ELSE "Indirect"
        reg == Register(size, (b \div 8) % 8)
    IN /\ a.count = 0
       /\ a.d.phase_ = "ModRegRM"
       /\ f.count = p + 2 + (mod % 3)
       /\ f.instr.operation = FamilyOperation(B)
       /\ f.instr.operation_size = size
       /\ f.instr.destination = (IF o < 2 THEN memreg ELSE reg)
       /\ f.instr.source = (IF o < 2 THEN reg ELSE memreg)

\* What the opcode B + 4 or B + 5 (o is 4 or 5) and the o - 3 bytes t
\* give, p prefixes having come first, told of the outcome f of the call
\* that took them: the accumulator as destination and the immediate t as
\* source.
FamilyImmediate(f, B, o, t, p) ==
    /\ f.count = p + 1 + (o - 3)
    /\ f.instr.operation = FamilyOperation(B)
    /\ f.instr.operation_size = o - 3
    /\ f.instr.destination = "eAX"
    /\ f.instr.source = "Immediate"
    /\ f.instr.operand = LittleEndian(t)

\* What a ModRegRM byte b of mod 3 after the two-operand opcode op (0x84
\* to 0x8b, 0x8d) gives, p prefixes having come first, told of the outcome
\* f of the call that took the two bytes: the registers numbered rm and
\* reg at the width of the opcode, the reg register as destination in the
\* forms that load a register (0x86, 0x87, 0x8a, 0x8b, 0x8d) and as source
\* in the others.
RegisterOperands(f, op, b, p) ==
    LET size == 1 + (op % 2)
        rm == Register(size, b % 8)
        reg == Register(size, (b \div 8) % 8)
        loads == op \in {134, 135, 138, 139, 141}
    IN /\ f.count = p + 2
       /\ f.instr.operation # "Undefined"
       /\ f.instr.operation_size = size
       /\ f.instr.destination = (IF loads THEN reg ELSE rm)
       /\ f.instr.source = (IF loads THEN rm ELSE reg)

\* The most bytes an instruction has after its opcode byte: a ModRegRM
\* byte, two displacement bytes and a four-byte operand.
LongestTail == 1 + 2 + 4

\* ModRegRM bytes of mod 2 with every reg, and two of mod 0.
SecondBytes == {128 + 8 * k : k \in 0..7} \cup {0, 1}

\* The trailing bytes collected never pass those required, and a decoder
\* left waiting for trailing bytes requires at least one more than it has.
TrailingBound(d) ==
    LET required == d.displacement_size_ + d.operand_size_
    IN /\ d.operand_bytes_ <= required
       /\ d.phase_ = "DisplacementOrOperand" =>
             /\ required >= 1
             /\ d.operand_bytes_ >= 0
             /\ d.operand_bytes_ < required

\* The first n bytes of bs.
Take(bs, n) == SubSeq(bs, 1, Min(n, Len(bs)))

\* The pair a call returned.
Returned == [count |-> result.count, instr |-> result.instr]

\* ------------------------------------------------------------------------
\* C1. Chunk-invariance: the bytes of an instruction, given to the decoder in
\* whatever chunks the calls chose, produce the positive result that the
\* same bytes produce when given one byte per call to a decoder in the state
\* this one had when the instruction began; and no positive result before
\* the instruction's last byte. This includes results that are Undefined.
C1_ChunkInvariance ==
    ByteByByte(start, fed, <<>>).out =
        IF result.count > 0 THEN <<Returned>> ELSE <<>>

\* An instruction of three bytes or more reported by a call that took at
\* least two of them.
C1_Witness ==
    /\ result.count >= 3
    /\ result.used >= 2
    /\ result.instr.operation # "Undefined"

\* C2. A positive count is the total number of bytes consumed for the
\* instruction since the previous positive return, prefixes and the bytes
\* of earlier calls included.
C2_CountIsTotalConsumed ==
    result.count > 0 => result.count = Len(fed)

\* A count larger than the buffer of the call that returned it, for an
\* instruction with a prefix.
C2_Witness ==
    /\ result.count > result.len
    /\ result.len > 0
    /\ LeadingPrefixes(fed) > 0

\* C3. A call that exhausts its buffer returns minus the number of bytes
\* outstanding when it leaves the decoder in the operand-bytes phase, and 0
\* only in the other phases.
C3_InsufficientDataSignal ==
    (result.len > 0 /\ result.count <= 0) =>
        IF dec.phase_ = "DisplacementOrOperand"
        THEN result.count = -Outstanding(dec)
        ELSE result.count = 0

C5_ZeroConsumesAll ==
    result.count = 0 =>
        (result.used = result.len /\ result.instr = InstructionT_default)

\* A return of 0 for a buffer of two bytes or more.
C5_Witness ==
    /\ result.count = 0
    /\ result.len >= 2
    /\ result.used = result.len

\* C6. On an invalidity the call returns the bytes consumed up to and
\* including the offending byte, with the sentinel: operation Undefined and
\* every other field default, whatever prefixes came first.
C6_UndefinedSentinel ==
    /\ Offends(fed) =>
            /\ result.count > 0
            /\ result.count = Len(fed)
            /\ result.instr = InstructionT_default
    /\ (result.count > 0 /\ result.instr.operation = "Undefined") =>
            result.instr = InstructionT_default

\* An invalid ModRegRM byte after a prefix and an opcode.
C6_Witness ==
    /\ Offends(fed)
    /\ LeadingPrefixes(fed) > 0
    /\ Len(StripPrefixes(fed)) = 2
    /\ result.count = Len(fed)

\* C7. After a positive return the decoder is in its initial phase, with
\* both byte counters, both sizes and the prefix fields cleared.
C7_ResetAfterReport ==
    result.count > 0 =>
        /\ dec.phase_ = "Instruction"
        /\ dec.consumed_ = 0
        /\ dec.operand_bytes_ = 0
        /\ dec.displacement_size_ = 0
        /\ dec.operand_size_ = 0
        /\ dec.lock_ = FALSE
        /\ dec.segment_override_ = "None"
        /\ dec.repetition_ = "None"

\* An Undefined report for bytes that began with a prefix.
C7_Witness ==
    /\ result.count > 1
    /\ result.instr.operation = "Undefined"
    /\ LeadingPrefixes(fed) > 0

C9_NopAfterAnything ==
    (prev # "none" /\ fed = <<144>>) =>
        /\ result.count = 1
        /\ result.instr.operation = "NOP"
        /\ result.instr.lock = FALSE
        /\ result.instr.segment_override = "None"
        /\ result.instr.repetition = "None"

\* A plain 0x90 decoded after an instruction that carried prefixes.
C9_Witness ==
    /\ prev = "prefixed"
    /\ fed = <<144>>
    /\ result.count = 1

\* C10. Resumable prefixes: while only prefixes have arrived the calls
\* return 0 and the decoder stays in the opcode phase; 0xf3 then 0xaa is
\* STOS (byte) with count 2 and repeat-while-equal; and every reported
\* instruction counts its prefixes on top of what its other bytes count
\* alone, and, unless it is Undefined, is what those bytes alone decode to
\* with the prefixes' lock, segment override and repetition.
C10_PrefixesAccumulate ==
    LET p == LeadingPrefixes(fed)
        bare == decode(InitialDecoder, StripPrefixes(fed))
    IN /\ (p = Len(fed) /\ result.count <= 0) =>
            (result.count = 0 /\ dec.phase_ = "Instruction" /\ dec.consumed_ = p)
       /\ fed = <<243, 170>> =>
            /\ result.count = 2
            /\ result.instr.operation = "STOS"
            /\ result.instr.operation_size = 1
            /\ result.instr.repetition = "RepE"
       /\ result.count > 0 =>
            /\ result.count = p + bare.count
            /\ result.instr.operation # "Undefined" =>
                 result.instr = [bare.instr EXCEPT
                                    !.lock = PrefixLock(fed),
                                    !.segment_override = PrefixSegment(fed),
                                    !.repetition = PrefixRepetition(fed)]

\* 0xf3 given alone, then 0xaa given alone.
C10_Witness ==
    /\ fed = <<243, 170>>
    /\ result.len = 1
    /\ result.used = 1
    /\ before = 0
    /\ result.count = 2

\* ------------------------------------------------------------------------
\* C11. Model gating: the byte 0x60 alone decodes to Undefined with count 1
\* on the 8086, and to PUSHA (word-sized, no operands) with count 1 on the
\* 80186, the 80286 and the 80386.
C11_PushaGating ==
    fed = <<96>> =>
        /\ result.count = 1
        /\ result.instr =
              IF model = i8086 THEN InstructionT_default
              ELSE [InstructionT_default EXCEPT !.operation = "PUSHA",
                                               !.operation_size = 2]

\* 0x60 rejected by an 8086 that has reported an instruction before.
C11_Witness ==
    /\ model = i8086
    /\ fed = <<96>>
    /\ prev # "none"
    /\ result.count = 1
    /\ result.instr.operation = "Undefined"

\* ------------------------------------------------------------------------
\* C12. On the 8086 and the 80186 the escape 0x0f is rejected: the call
\* that takes it returns Undefined with a count of the prefix bytes before
\* it plus 1, the decoder is never in the extended-opcode phase, and the
\* bytes after 0x0f decode as a newly constructed decoder decodes them.
C12_EscapeRejected ==
    [][model < i80286 =>
        /\ dec'.phase_ # "InstructionPageF"
        /\ (StripPrefixes(fed') # <<>> /\ Head(StripPrefixes(fed')) = 15) =>
              /\ result'.count = LeadingPrefixes(fed') + 1
              /\ result'.count = Len(fed')
              /\ result'.instr = InstructionT_default
        /\ (StripPrefixes(fed) = <<15>> /\ result'.used > 0) =>
              LET f == decode(InitialDecoder, fed')
              IN /\ f.count = result'.count
                 /\ f.instr = result'.instr
                 /\ f.d = dec']_vars

\* LOCK and 0x0f rejected by an 80186, with the next byte already in the
\* buffer of the same call.
C12_Witness ==
    /\ model = i80186
    /\ fed = <<240, 15>>
    /\ result.count = 2
    /\ result.instr.operation = "Undefined"
    /\ result.len > result.used

\* ------------------------------------------------------------------------
\* C13, as claimed. 0x83 0xe8 0xff is SUB with destination AX, source
\* Immediate, operand 0xffff and count 3; and the one-byte immediate of
\* every reported instruction of operation size 2 is sign-extended to 16
\* bits.
C13_SignExtension ==
    /\ fed = <<131, 232, 255>> =>
          /\ result.count = 3
          /\ result.instr.operation = "SUB"
          /\ result.instr.destination = "eAX"
          /\ result.instr.source = "Immediate"
          /\ result.instr.operand = 65535
    /\ (result.count > 0 /\ result.instr.operation # "Undefined"
            /\ ByteFeedsWord(fed)) =>
          result.instr.operand = SignExtended(fed[Len(fed)])

\* C13, amended. 0x83 0xe8 0xff is SUB with destination AX, source
\* Immediate, operand 0xffff and count 3; and the one-byte immediate of
\* every reported instruction of operation size 2, other than IN and OUT,
\* is sign-extended to 16 bits.
C13_SignExtensionButPorts ==
    /\ fed = <<131, 232, 255>> =>
          /\ result.count = 3
          /\ result.instr.operation = "SUB"
          /\ result.instr.destination = "eAX"
          /\ result.instr.source = "Immediate"
          /\ result.instr.operand = 65535
    /\ (result.count > 0 /\ result.instr.operation \notin {"Undefined", "IN", "OUT"}
            /\ ByteFeedsWord(fed)) =>
          result.instr.operand = SignExtended(fed[Len(fed)])

\* 0x83 0xe8 0xff reported by a call that was given the immediate alone.
C13_Witness ==
    /\ fed = <<131, 232, 255>>
    /\ result.count = 3
    /\ result.len = 1
    /\ result.instr.operand = 65535

\* ------------------------------------------------------------------------
\* C14. On exhaustion no state is discarded. After a call that returned a
\* count <= 0: a call given no bytes changes nothing; the next call leaves
\* the decoder as one call given all the instruction's bytes so far leaves
\* it, and counts its bytes on top of those already consumed; a further
\* exhausted call keeps the prefixes once the opcode has been read, and in
\* the operand-bytes phase keeps the operation, operands and sizes and adds
\* its bytes to those accumulated.
C14_NothingDiscarded ==
    [][result.count <= 0 =>
        /\ result'.len = 0 => (dec' = dec /\ result'.count = 0)
        /\ dec' = decode(start, fed').d
        /\ (IF result'.count > 0 THEN result'.count ELSE dec'.consumed_) =
              dec.consumed_ + result'.used
        /\ (result'.count <= 0 /\ dec.phase_ # "Instruction") =>
              /\ dec'.phase_ # "Instruction"
              /\ dec'.lock_ = dec.lock_
              /\ dec'.segment_override_ = dec.segment_override_
              /\ dec'.repetition_ = dec.repetition_
              /\ dec'.address_size_ = dec.address_size_
        /\ (result'.count <= 0 /\ dec.phase_ = "DisplacementOrOperand") =>
              /\ dec'.phase_ = "DisplacementOrOperand"
              /\ dec'.operation_ = dec.operation_
              /\ dec'.source_ = dec.source_
              /\ dec'.destination_ = dec.destination_
              /\ dec'.sib_ = dec.sib_
              /\ dec'.operation_size_ = dec.operation_size_
              /\ dec'.displacement_size_ = dec.displacement_size_
              /\ dec'.operand_size_ = dec.operand_size_
              /\ dec'.operand_bytes_ = dec.operand_bytes_ + result'.used]_vars

\* REP, then MOV AX,imm16, then the first byte of its immediate, each given
\* alone: the third call returns -1 with the prefix and the operation kept.
C14_Witness ==
    /\ before = 0
    /\ result.count = -1
    /\ result.len = 1
    /\ dec.repetition_ = "RepE"
    /\ dec.operation_ = "MOV"
    /\ dec.consumed_ = 3

\* ------------------------------------------------------------------------
\* C15. Every call ends in one of three outcomes: a positive count, the
\* total of the instruction's bytes, with an instruction that is valid or
\* the Undefined sentinel; a negative count, with no instruction, the
\* decoder waiting in the operand-bytes phase for that many bytes; or the
\* count 0, with no instruction. And between calls the decoder is in the
\* opcode, extended-opcode, ModRegRM or operand-bytes phase, never in the
\* ready-to-post or the scale-index-base phase.
C15_OutcomesAndPhases ==
    /\ \/ /\ result.count > 0
          /\ result.count = Len(fed)
          /\ \/ result.instr.operation \notin {"Undefined", "Invalid"}
             \/ result.instr = InstructionT_default
          /\ dec.phase_ = "Instruction"
       \/ /\ result.count < 0
          /\ result.instr = InstructionT_default
          /\ dec.phase_ = "DisplacementOrOperand"
          /\ -result.count = Outstanding(dec)
       \/ /\ result.count = 0
          /\ result.instr = InstructionT_default
    /\ dec.phase_ \in {"Instruction", "InstructionPageF", "ModRegRM",
                       "DisplacementOrOperand"}

\* A call that returned 0 having taken the escape 0x0f and nothing after.
C15_Witness ==
    /\ result.count = 0
    /\ result.used > 0
    /\ dec.phase_ = "InstructionPageF"

C17_PhasesForward ==
    \A buf \in Buffers :
        \E b \in {Blocks(dec, buf)} :
            \A i \in 1..(Len(b) - 1) : Forward(b[i], b[i + 1])

\* One call took the escape 0x0f and the second byte of a group: from the
\* opcode phase through the extended-opcode phase to the ModRegRM phase.
C17_Witness ==
    /\ fed = <<15, 1>>
    /\ result.len = 2
    /\ result.count = 0
    /\ dec.phase_ = "ModRegRM"

\* ------------------------------------------------------------------------
\* C18. The opcode switch is total: for every model and every value of the
\* leading byte, after any prefixes, the decoder takes exactly one of the
\* actions prefix, escape, ModRegRM, operand bytes, complete and reject; it
\* takes prefix for the seven prefix bytes only and escape for 0x0f on the
\* 80286 and 80386 only; and it rejects the bytes with no entry, such as
\* 0x8c, and those the model lacks, as Undefined with a count of the prefix
\* bytes plus 1.
C18_DispatchTotal ==
    (fed # <<>> /\ LeadingPrefixes(fed) >= Len(fed) - 1) =>
        LET b == fed[Len(fed)]
        IN /\ Cardinality({a \in 1..6 : DispatchAction(a)}) = 1
           /\ DispatchAction(1) <=> b \in PrefixOpcodes
           /\ DispatchAction(2) <=> (b = 15 /\ model >= i80286)
           /\ DispatchAction(6) <=>
                 b \in UnassignedOpcodes \cup UnavailableOpcodes(model)
           /\ DispatchAction(6) => result.count = LeadingPrefixes(fed) + 1

\* 0x8c rejected after a LOCK prefix.
C18_Witness ==
    /\ fed = <<240, 140>>
    /\ result.count = 2
    /\ result.instr.operation = "Undefined"
    /\ result.len = 1

\* ------------------------------------------------------------------------
\* C19. Availability is decided on the opcode byte alone: on the 8086 each
\* of 0x60, 0x61, 0x62, 0x63, 0x6c to 0x6f, 0xc8 and 0xc9, and on the 80186
\* 0x63, is the last byte of its instruction, which the call that takes it
\* reports as Undefined with a count of the prefix bytes plus 1; no
\* ModRegRM, displacement or immediate byte is consumed after it.
C19_GatedOnOpcode ==
    LET r == StripPrefixes(fed)
    IN (r # <<>> /\ Head(r) \in UnavailableOpcodes(model) \ {15}) =>
          /\ Len(r) = 1
          /\ result.count = LeadingPrefixes(fed) + 1
          /\ result.instr = InstructionT_default

\* ENTER rejected by an 8086 after a segment override, with the bytes that
\* would be its operands in the buffer of the same call.
C19_Witness ==
    /\ model = i8086
    /\ fed = <<38, 200>>
    /\ result.count = 2
    /\ result.len = 3
    /\ result.used = 1

C21_AbsoluteAddress ==
    LET r == StripPrefixes(fed)
    IN (Len(r) >= 2 /\ r[1] = 131 /\ r[2] = 6) =>
          /\ Len(r) < 5 => result.count <= 0
          /\ result.count > 0 =>
                /\ result.count = LeadingPrefixes(fed) + 5
                /\ result.instr.sib.base = "None"
                /\ result.instr.displacement % 65536 = r[3] + 256 * r[4]

\* ------------------------------------------------------------------------
\* C22. A ModRegRM byte of mod 0, 1 or 2 gives an Indirect operand with
\* the base and index that rm selects, followed by 0, 1 or 2 displacement
\* bytes; the count is prefixes, opcode, ModRegRM byte, displacement and
\* immediate bytes. This holds of every such byte after 0x01, 0x83 and
\* 0xc7 and any decoder that awaits an opcode, and of the instructions
\* the calls have decoded, however they were split.
C22_IndirectOperand ==
    /\ AwaitsOpcode =>
          \A op \in {1, 131, 199} : \A b \in 0..191 :
              InvalidModRegRM(op, b)
                 \/ IndirectOperand(decode(dec, <<op, b>>),
                       decode(dec, <<op, b>> \o Padding((b \div 64) + ImmediateBytes(op))),
                       op, b, dec.consumed_)
    /\ LET r == StripPrefixes(fed)
       IN (Len(r) >= 2 /\ r[1] = 131 /\ r[2] < 192) =>
             IF Len(r) < 3 + (r[2] \div 64)
             THEN /\ result.count <= 0
                  /\ dec.displacement_size_ = r[2] \div 64
                  /\ dec.sib_ = rm_table(r[2] % 8)
             ELSE /\ result.count = LeadingPrefixes(fed) + 3 + (r[2] \div 64)
                  /\ result.count = Len(fed)
                  /\ result.instr.destination = "Indirect"
                  /\ result.instr.sib = rm_table(r[2] % 8)

\* 0x83 0x46 and two more bytes reported as ADD to [BP + 6], the immediate
\* given alone.
C22_Witness ==
    /\ fed = <<131, 70, 6, 131>>
    /\ result.len = 1
    /\ result.count = 4
    /\ result.instr.sib = ScaleIndexBase(0, "None", "eBP")
    /\ result.instr.displacement = 6

\* ------------------------------------------------------------------------
\* C23. LES (0xc4) and LDS (0xc5) followed by a ModRegRM byte of mod 3 are
\* rejected: the call returns Undefined with a count of the prefixes plus
\* 2, for every reg and rm; with any other mod the byte is taken. This
\* holds of every ModRegRM byte after any decoder that awaits an opcode,
\* and of the pairs the calls have decoded, however they were split.
C23_FarLoadOfRegister ==
    /\ AwaitsOpcode =>
          \A op \in {196, 197} : \A b \in 0..255 :
              FarLoad(decode(dec, <<op, b>>), op, b, dec.consumed_)
    /\ LET r == StripPrefixes(fed)
       IN (Len(r) = 2 /\ r[1] \in {196, 197}) =>
             FarLoad([count |-> result.count, instr |-> result.instr, d |-> dec],
                     r[1], r[2], LeadingPrefixes(fed))

\* ES:, LES and the ModRegRM byte 0xc5 rejected, the last byte given alone.
C23_Witness ==
    /\ fed = <<38, 196, 197>>
    /\ result.len = 1
    /\ result.count = 3
    /\ result.instr.operation = "Undefined"

\* ------------------------------------------------------------------------
\* C24. After 0xf6 and 0xf7 the reg field of the ModRegRM byte selects the
\* operation: 0 TEST, 2 NOT, 3 NEG, 4 MUL, 5 IMUL, 6 DIV, 7 IDIV, with
\* source and destination both the ModRegRM operand; reg 1 is Undefined.
\* This holds of every ModRegRM byte after any decoder that awaits an
\* opcode, and of the pairs the calls have decoded, however they were
\* split.
C24_UnaryGroup ==
    /\ AwaitsOpcode =>
          \A op \in {246, 247} : \A b \in 0..255 :
              UnaryGroup(decode(dec, <<op, b>> \o Padding((b \div 64) % 3)),
                         op, b, dec.consumed_)
    /\ LET r == StripPrefixes(fed)
       IN (Len(r) = 2 /\ r[1] = 247 /\ r[2] >= 192) =>
             UnaryGroup([count |-> result.count, instr |-> result.instr],
                        r[1], r[2], LeadingPrefixes(fed))

\* LOCK, 0xf7 and the ModRegRM byte 0xf7 reported as DIV of DI, the last
\* byte given alone.
C24_Witness ==
    /\ fed = <<240, 247, 247>>
    /\ result.len = 1
    /\ result.count = 3
    /\ result.instr.operation = "DIV"
    /\ result.instr.source = "eDI"
    /\ result.instr.destination = "eDI"

\* ------------------------------------------------------------------------
\* C25. After 0x8e a ModRegRM byte whose reg field is 4-7 is rejected as
\* Undefined with a count of the prefixes plus 2; reg 0-3 select the
\* destination ES, CS, SS, DS, with the ModRegRM operand as source. This
\* holds of every ModRegRM byte after any decoder that awaits an opcode,
\* and of the instructions the calls have decoded, however they were
\* split.
C25_SegmentMove ==
    /\ AwaitsOpcode =>
          \A b \in 0..255 :
              SegmentMove(decode(dec, <<142, b>> \o Padding((b \div 64) % 3)),
                          b, dec.consumed_)
    /\ LET r == StripPrefixes(fed)
       IN (Len(r) >= 2 /\ r[1] = 142) =>
             IF (r[2] \div 8) % 8 < 4 /\ Len(r) < 2 + ((r[2] \div 64) % 3)
             THEN result.count <= 0
             ELSE SegmentMove([count |-> result.count, instr |-> result.instr],
                              r[2], LeadingPrefixes(fed))

\* ES:, 0x8e and the ModRegRM byte 0xe0 (reg 4) rejected, the last byte
\* given with another behind it.
C25_Witness ==
    /\ fed = <<38, 142, 224>>
    /\ result.count = 3
    /\ result.instr.operation = "Undefined"
    /\ result.len = 2
    /\ result.used = 1

\* ------------------------------------------------------------------------
\* C26. In every opcode decoded by group, a ModRegRM byte whose reg has no
\* operation assigned fails the instruction at that byte: the call returns
\* Undefined with a count of the bytes through the ModRegRM byte, and the
\* displacement and immediate bytes that mod and the opcode would ask for
\* are not consumed but start the next instruction. This holds of every
\* such byte of every group, with three more bytes behind it in the same
\* buffer, after any decoder that awaits an opcode, and of the bytes the
\* calls have decoded, however they were split.
C26_GroupRejects ==
    /\ AwaitsOpcode =>
          \A g \in GroupOpcodes : \A b \in 0..255 :
              ((b \div 8) % 8 \in UnassignedReg(g)
                    /\ (Len(g) = 2 => model >= i80286)) =>
                 \E f \in {decode(dec, g \o <<b, 5, 144, 144>>)} :
                    /\ RejectedAt(f, g, dec.consumed_)
                    /\ decode(f.d, <<5, 144, 144>>).count = 3
                    /\ decode(f.d, <<5, 144, 144>>).instr.operand = 144 * 257
    /\ LET r == StripPrefixes(fed)
       IN \A g \in GroupOpcodes :
             (Len(r) = Len(g) + 1 /\ SubSeq(r, 1, Len(g)) = g
                  /\ (r[Len(r)] \div 8) % 8 \in UnassignedReg(g)
                  /\ (Len(g) = 2 => model >= i80286)) =>
                RejectedAt([count |-> result.count, instr |-> result.instr,
                            d |-> dec, pos |-> Len(g) + 1],
                           g, LeadingPrefixes(fed))

\* 0x0f, 0x00 and the ModRegRM byte 0x38 (reg 7) rejected by an 80286, the
\* last byte given with two more behind it.
C26_Witness ==
    /\ model = i80286
    /\ fed = <<15, 0, 56>>
    /\ result.count = 3
    /\ result.instr.operation = "Undefined"
    /\ result.len = 3
    /\ result.used = 1

\* ------------------------------------------------------------------------
\* C27. The one-byte port number of IN and OUT is never sign-extended:
\* 0xe5 (IN, word) and 0xe7 (OUT, word) followed by the byte b are reported
\* with the operand b, a value of 0 to 255, also for b >= 0x80; so are the
\* byte forms 0xe4 and 0xe6. This holds of every byte b after any decoder
\* that awaits an opcode, and of the pairs the calls have decoded, however
\* they were split.
C27_PortUnsigned ==
    /\ AwaitsOpcode =>
          \A op \in 228..231 : \A b \in 0..255 :
              PortNumber(decode(dec, <<op, b>>), op, b, dec.consumed_)
    /\ LET r == StripPrefixes(fed)
       IN (Len(r) = 2 /\ r[1] \in {229, 231}) =>
             PortNumber([count |-> result.count, instr |-> result.instr],
                        r[1], r[2], LeadingPrefixes(fed))

\* 0xe7 and the port 0xe5 reported as OUT with the operand 0xe5, the port
\* given alone.
C27_Witness ==
    /\ fed = <<231, 229>>
    /\ result.len = 1
    /\ result.count = 2
    /\ result.instr.operation = "OUT"
    /\ result.instr.operation_size = 2
    /\ result.instr.operand = 229

\* ------------------------------------------------------------------------
\* C28. Far CALL (0x9a) and far JMP (0xea) take exactly four trailing
\* bytes b0 b1 b2 b3, for a count of the prefixes plus 5: the displacement
\* is the signed 16-bit value b0 + 256 * b1 and the operand is
\* b2 + 256 * b3. This holds of the bytes at the limits of the signed
\* range after any decoder that awaits an opcode, and of the instructions
\* the calls have decoded, however they were split; with fewer than four
\* trailing bytes no instruction is reported.
C28_FarPointer ==
    /\ AwaitsOpcode =>
          \A op \in {154, 234} : \A t \in [1..4 -> Limits] :
              /\ FarPointer(decode(dec, <<op>> \o t), op, t, dec.consumed_)
              /\ decode(dec, <<op>> \o SubSeq(t, 1, 3)).count <= 0
    /\ LET r == StripPrefixes(fed)
       IN (r # <<>> /\ r[1] = 154) =>
             IF Len(r) < 5 THEN result.count <= 0
             ELSE FarPointer([count |-> result.count, instr |-> result.instr],
                             154, Tail(r), LeadingPrefixes(fed))

\* ES:, far CALL and the bytes 0x9a 0x26 0x26 0x9a reported with the
\* displacement 0x269a and the operand 0x9a26, the last byte given alone.
C28_Witness ==
    /\ fed = <<38, 154, 154, 38, 38, 154>>
    /\ result.len = 1
    /\ result.count = 6
    /\ result.instr.operation = "CALLF"
    /\ result.instr.displacement = 9882
    /\ result.instr.operand = 39462

C30_SignedDisplacement ==
    /\ AwaitsOpcode =>
          /\ \A op \in ShortJumps : \A b \in 0..255 :
                \E f \in {decode(dec, <<op, b>>)} :
                   /\ f.count = dec.consumed_ + 2
                   /\ f.instr.operation # "Undefined"
                   /\ f.instr.displacement = Signed8(b)
          /\ \A lo \in Limits : \A hi \in Limits :
                \E f \in {decode(dec, <<137, 128, lo, hi>>)} :
                   /\ f.count = dec.consumed_ + 4
                   /\ f.instr.displacement = Signed16(lo + 256 * hi)
    /\ LET r == StripPrefixes(fed)
       IN (r # <<>> /\ r[1] \in {112, 235}) =>
             IF Len(r) < 2 THEN result.count <= 0
             ELSE /\ result.count = LeadingPrefixes(fed) + 2
                  /\ result.instr.displacement = Signed8(r[2])

\* ES:, JO and the byte 0xeb reported with the displacement -21, the byte
\* given alone.
C30_Witness ==
    /\ fed = <<38, 112, 235>>
    /\ result.len = 1
    /\ result.count = 3
    /\ result.instr.operation = "JO"
    /\ result.instr.displacement = -21

\* ------------------------------------------------------------------------
\* C31. decode never consumes bytes beyond the instruction it reports.
\* When a call returns a count > 0, the bytes it took from its buffer are
\* the count less the bytes that earlier calls took; the same bytes with
\* one or two more behind them in one buffer give the same count and
\* instruction and leave the bytes behind unread; and a call on the rest
\* decodes as a newly constructed decoder does, from its first byte.
C31_NothingBeyond ==
    result.count > 0 =>
       /\ result.used = result.count - (Len(fed) - result.used)
       /\ result.used <= result.len
       /\ \A rest \in Rests :
             \E f \in {decode(start, fed \o rest)} :
                /\ f.count = result.count
                /\ f.instr = result.instr
                /\ f.pos = Len(fed)
                /\ f.d = dec
                /\ SameOutcome(decode(dec, rest), decode(InitialDecoder, rest))

\* 0x81 0x46 and three trailing bytes reported by a call that was given
\* the last two of them and one more byte, which it left.
C31_Witness ==
    /\ fed = <<129, 70, 131, 70, 129>>
    /\ result.count = 5
    /\ result.len = 3
    /\ result.used = 2

\* ------------------------------------------------------------------------
\* C32. The opcodes of the register blocks are complete on the opcode
\* byte: every byte 0x40 + 8k + r, k in 0..3 and r in 0..7, is reported
\* with a count of the prefixes plus 1 as INC, DEC, PUSH, POP for k = 0, 1,
\* 2, 3, of word size, with source and destination both the word register
\* r in the order AX, CX, DX, BX, SP, BP, SI, DI, and no ModRegRM byte is
\* consumed. This holds of every such byte with a byte of any mod behind
\* it in the buffer after any decoder that awaits an opcode, and of the
\* bytes the calls have decoded, however they were split.
C32_RegisterBlocks ==
    /\ AwaitsOpcode =>
          \A op \in 64..95 : \A x \in {0, 70, 128, 255} :
              RegisterBlock(decode(dec, <<op, x>>), op, dec.consumed_)
    /\ LET r == StripPrefixes(fed)
       IN (r # <<>> /\ r[1] \in 64..95) =>
             /\ Len(r) = 1
             /\ RegisterBlock([count |-> result.count, instr |-> result.instr,
                               pos |-> Len(r)], r[1], LeadingPrefixes(fed))

\* INC SI reported by a call that was given it with another byte behind
\* it, which it left.
C32_Witness ==
    /\ fed = <<70>>
    /\ result.count = 1
    /\ result.len = 2
    /\ result.used = 1
    /\ result.instr.operation = "INC"
    /\ result.instr.source = "eSI"

\* ------------------------------------------------------------------------
\* C33. Of each arithmetic and logic family at base B (0x00 ADD, 0x08 OR,
\* 0x10 ADC, 0x18 SBB, 0x20 AND, 0x28 SUB, 0x30 XOR, 0x38 CMP), B+0 to B+3
\* take a ModRegRM byte, with byte size for even and word size for odd
\* offsets, the ModRegRM operand as destination for B+0 and B+1 and the
\* reg register as destination for B+2 and B+3; B+4 takes a one-byte and
\* B+5 a two-byte immediate, with the accumulator as destination and
\* Immediate as source, for counts of the prefixes plus 2 and plus 3. This
\* holds of every family with ModRegRM bytes of each mod and immediates
\* at the limits of the signed range after any decoder that awaits an
\* opcode, and of the pairs the calls have decoded, however they were
\* split.
C33_ArithmeticFamilies ==
    /\ AwaitsOpcode =>
          \A B \in {0, 8, 16, 24, 32, 40, 48, 56} :
             /\ \A o \in 0..3 : \A b \in {30, 70, 128, 193, 222} :
                   FamilyModRegRM(decode(dec, <<B + o>>),
                                  decode(dec, <<B + o, b>> \o Padding((b \div 64) % 3)),
                                  B, o, b, dec.consumed_)
             /\ \A x \in Limits :
                   FamilyImmediate(decode(dec, <<B + 4, x>>), B, 4, <<x>>,
                                   dec.consumed_)
             /\ \A t \in [1..2 -> Limits] :
                   FamilyImmediate(decode(dec, <<B + 5>> \o t), B, 5, t,
                                   dec.consumed_)
    /\ LET r == StripPrefixes(fed)
       IN (Len(r) = 2 /\ r[1] \in {0, 56} /\ r[2] < 64) =>
             FamilyModRegRM([count |-> 0, d |-> [phase_ |-> "ModRegRM"]],
                            [count |-> result.count, instr |-> result.instr],
                            r[1], 0, r[2], LeadingPrefixes(fed))

\* CMP r/m8,r8 and the ModRegRM byte 0x38 reported as CMP of BH with the
\* byte at [BX + SI], the ModRegRM byte given alone.
C33_Witness ==
    /\ fed = <<56, 56>>
    /\ result.len = 1
    /\ result.count = 2
    /\ result.instr.operation = "CMP"
    /\ result.instr.source = "BH"
    /\ result.instr.destination = "Indirect"

\* ------------------------------------------------------------------------
\* C34. In the two-operand ModRegRM forms with mod 3 the rm operand is the
\* register numbered rm at the operand width (byte: AL, CL, DL, BL, AH,
\* CH, DH, BH; word: AX, CX, DX, BX, SP, BP, SI, DI) and reg selects the
\* other register from the same table; in the format reg <- mem/reg the
\* reg register is the destination and the rm operand the source, and in
\* the format mem/reg <- reg the other way. This holds of every ModRegRM
\* byte of mod 3 after TEST, XCHG, MOV and LEA and any decoder that awaits
\* an opcode, and of the pairs the calls have decoded, however they were
\* split.
C34_RegisterOperands ==
    /\ AwaitsOpcode =>
          \A op \in (132..139) \cup {141} : \A b \in 192..255 :
              RegisterOperands(decode(dec, <<op, b>>), op, b, dec.consumed_)
    /\ LET r == StripPrefixes(fed)
       IN (Len(r) = 2 /\ r[1] \in {137, 139} /\ r[2] >= 192) =>
             RegisterOperands([count |-> result.count, instr |-> result.instr],
                              r[1], r[2], LeadingPrefixes(fed))

\* MOV r16,r/m16 and the ModRegRM byte 0xcb reported as MOV of BX to CX,
\* the ModRegRM byte given alone.
C34_Witness ==
    /\ fed = <<139, 203>>
    /\ result.len = 1
    /\ result.count = 2
    /\ result.instr.operation = "MOV"
    /\ result.instr.source = "eBX"
    /\ result.instr.destination = "eCX"

\* ------------------------------------------------------------------------
\* C35. A call with a buffer of no bytes, in any state between calls,
\* changes no field of the decoder and returns the count 0 with no
\* instruction, also when the decoder waits for trailing bytes.
C35_EmptyBuffer ==
    [][result'.len = 0 =>
          /\ dec' = dec
          /\ result'.count = 0
          /\ result'.used = 0
          /\ result'.instr = InstructionT_default]_vars

\* A decoder that has one of the trailing bytes of 0x81 0x46 and has just
\* been given no bytes.
C35_Witness ==
    /\ fed = <<129, 70, 131>>
    /\ dec.phase_ = "DisplacementOrOperand"
    /\ dec.operand_bytes_ = 1
    /\ result.len = 0
    /\ result.count = 0

\* ------------------------------------------------------------------------
\* C36. Once a byte that is no prefix has been consumed as the opcode, an
\* instruction is reported, valid or Undefined, by the time 7 further
\* bytes have been supplied, however they are chunked; only prefix bytes
\* leave the decoder awaiting an opcode with nothing reported. A call that
\* reports nothing has taken every byte it was given, so the bytes taken
\* are the bytes supplied: an unreported instruction has its opcode and at
\* most 6 further bytes, and what it still waits for fits in the 7. Every
\* opcode followed by 7 bytes in one buffer is reported by that call.
C36_ReportedWithinSeven ==
    LET r == StripPrefixes(fed)
    IN /\ result.count <= 0 => result.used = result.len
       /\ (result.count <= 0 /\ dec.phase_ = "Instruction") => r = <<>>
       /\ (result.count <= 0 /\ r # <<>>) =>
             /\ Len(r) - 1 < LongestTail
             /\ dec.phase_ = "DisplacementOrOperand" =>
                   Len(r) - 1 + Outstanding(dec) <= LongestTail
       /\ result.count > 0 => Len(r) - 1 <= LongestTail
       /\ AwaitsOpcode =>
             \A op \in (0..255) \ PrefixOpcodes :
             \A b \in SecondBytes : \A c \in {0, 152} :
                \E f \in {decode(dec, <<op, b, c>> \o Padding(LongestTail - 2))} :
                   /\ f.count > 0
                   /\ f.count <= dec.consumed_ + 1 + LongestTail

\* The group 0xff with the ModRegRM byte 0x98 (mod 2, far CALL) reported
\* when the seventh byte after the opcode is given, alone.
C36_Witness ==
    /\ Len(fed) = 8
    /\ SubSeq(fed, 1, 2) = <<255, 152>>
    /\ result.count = 8
    /\ result.len = 1
    /\ result.instr.operation = "CALLF"

\* ------------------------------------------------------------------------
\* C37, as claimed. The shifts and rotates by one, 0xd0 and 0xd1, are
\* reported with source Immediate and the operand 1 for every addressing
\* mode of the ModRegRM byte, mod 1 and mod 2 with their displacement
\* bytes included.
C37_ShiftByOne ==
    LET r == StripPrefixes(fed)
    IN (result.count > 0 /\ Len(r) >= 2 /\ r[1] \in {208, 209}
           /\ result.instr.operation # "Undefined") =>
          /\ result.instr.source = "Immediate"
          /\ result.instr.operand = 1
          /\ result.count = LeadingPrefixes(fed) + 2 + ((r[2] \div 64) % 3)

\* ------------------------------------------------------------------------
\* C38, as claimed. Every instruction decoded from the immediate groups
\* 0x80 to 0x83 is reported with source Immediate and the ModRegRM operand
\* as destination; after 0x80 and 0x81 every reg gives an operation (ADD,
\* OR, ADC, SBB, AND, SUB, XOR, CMP) and the immediate is as wide as the
\* operation; after 0x82 and 0x83 only reg 0, 2, 3, 5, 7 do and the
\* immediate is one byte.
C38_ImmediateGroups ==
    LET r == StripPrefixes(fed)
        mod == r[2] \div 64
        reg == (r[2] \div 8) % 8
        size == 1 + (r[1] % 2)
        width == IF r[1] < 130 THEN size ELSE 1
    IN (result.count > 0 /\ Len(r) >= 2 /\ r[1] \in 128..131) =>
          IF r[1] >= 130 /\ reg \in {1, 4, 6}
          THEN result.instr = InstructionT_default
          ELSE /\ result.count = LeadingPrefixes(fed) + 2 + (mod % 3) + width
               /\ result.instr.operation =
                     <<"ADD", "OR", "ADC", "SBB", "AND", "SUB", "XOR", "CMP">>[reg + 1]
               /\ result.instr.operation_size = size
               /\ result.instr.source = "Immediate"
               /\ result.instr.destination =
                     (IF mod = 3 THEN Register(size, r[2] % 8) ELSE "Indirect")

\* ------------------------------------------------------------------------
\* C39. Between calls a decoder in the operand-bytes phase has
\* displacement_size_ + operand_size_ >= 1 and has collected at least 0 and
\* strictly fewer trailing bytes than that sum; in every reachable state the
\* bytes collected do not exceed the bytes required. This holds of the
\* states reached and, from every state awaiting an opcode, after each
\* opcode byte, sampled ModRegRM byte and up to two further bytes.
C39_TrailingBound ==
    /\ TrailingBound(dec)
    /\ AwaitsOpcode =>
          \A op \in 0..255 : \A b \in SecondBytes : \A n \in 1..4 :
             TrailingBound(decode(dec, Take(<<op, b, 152, 152>>, n)).d)

\* A call ended with two of the three trailing bytes of an immediate-group
\* instruction with a word displacement collected.
C39_Witness ==
    /\ dec.phase_ = "DisplacementOrOperand"
    /\ dec.displacement_size_ = 2
    /\ dec.operand_size_ = 1
    /\ dec.operand_bytes_ = 2
    /\ result.count = -1
    /\ Len(fed) = 4
    /\ fed[1] = 131

====
